---- MODULE Spec2Model ----
(***************************************************************************)
(* State-machine model of the security analysis platform:                  *)
(*   models/entities.py            SecurityEntity                          *)
(*   engines/response_executor.py  ResponseOrchestrator and its executors  *)
(*   engines/connection_expansion.py  ConnectionExpansionEngine            *)
(*   engines/risk_scoring.py       RiskScoringEngine                       *)
(*   services/security_analysis_service.py  SecurityAnalysisService        *)
(* Risk scores are floats in the source; the model uses whole points.      *)
(***************************************************************************)
EXTENDS Integers, Sequences, FiniteSets, TLC

VARIABLES
    \* ---- ResponseOrchestrator.execute_response (one call) ----
    rPc,        \* "idle" | "gather" | "returned" | "rejected" | "raised"
    rEntity,    \* the SecurityEntity the call works on
    rEntity0,   \* the entity as it was when the call started
    rCustom,    \* the custom_actions argument (<<>> when absent)
    rRequested, \* the actions argument of manual_response_execution (<<>> for other callers)
    rActions,   \* the list chosen at lines 544-547
    rSorted,    \* sorted_actions
    rTasks,     \* the tasks handed to asyncio.gather, in creation order
    rResults,   \* the results list
    executors,  \* ResponseOrchestrator.executors, the registry
    \* ---- ConnectionExpansionEngine.expand_entity_connections (one call) ----
    xPc,        \* "idle" | "gather" | "returned"
    xSource,    \* the entity being expanded
    xBranch,    \* per expansion method: the state of its task and what it returned
    xOrder,     \* the methods whose task has ended, in the order they ended
    xExpanded,  \* expanded_entities, the list the call returns
    xMaxEntities,  \* expansion_config['max_entities_per_expansion']
    \* ---- SecurityAnalysisService.analyze_security_event (one call) ----
    aPc,          \* "idle" | "expand" | "score" | "respond" | "finish" | "returned" | "raised"
    aConfig,      \* processing_config as the call reads it
    aEntities,    \* entities, the list the recognizer returned
    aNeighbors,   \* per entity: the list its expansion returned
    aExpand,      \* per entity: the state of its expansion task
    aIdx,         \* position of the loop that awaits scoring or response tasks
    aRiskScores,  \* risk_scores, the dict keyed by entity_id
    aMaxRisk,     \* max_risk_score
    aTargets,     \* response_tasks: indices of the entities that get a response
    aResponses,   \* response_results
    aRunning,     \* the entities whose execute_response has begun and not returned
    aResult,      \* what the call returned
    stats,        \* processing_stats
    \* ---- SecurityAnalysisService.batch_analyze_events (one call) ----
    bPc,          \* "idle" | "gather" | "cancelling" | "returned" | "raised"
    bEvents,      \* events, the list of payloads
    bLimit,       \* processing_config['max_concurrent_processing']
    bSem,         \* the semaphore's value: permits not held
    bTask,        \* per payload: "waiting" | "running" | "done" | "cancelled"
    bResults,     \* per payload: what its analyze_security_event returned
    bOrder,       \* indices of the finished analyses, in the order they finished
    bReturn,      \* what the call returned
    \* ---- EntityRecognizer.extract_entities (one call) ----
    gPc,          \* "idle" | "returned"
    gPayload,     \* log_data: a value or Absent for each field
    gEntities,    \* the list the call returned
    \* ---- concurrent analyze_security_event calls on one service ----
    sCalls,       \* per call: its position, what it counted, what it returned
    sStats        \* processing_stats, shared by the calls

respVars == <<rPc, rEntity, rEntity0, rCustom, rRequested, rActions, rSorted, rTasks, rResults, executors>>

expVars == <<xPc, xSource, xBranch, xOrder, xExpanded, xMaxEntities>>

anVars == <<aPc, aConfig, aEntities, aNeighbors, aExpand, aIdx, aRiskScores, aMaxRisk,
            aTargets, aResponses, aRunning, aResult, stats>>

batchVars == <<bPc, bEvents, bLimit, bSem, bTask, bResults, bOrder, bReturn>>

recVars == <<gPc, gPayload, gEntities>>

statVars == <<sCalls, sStats>>

vars == <<rPc, rEntity, rEntity0, rCustom, rRequested, rActions, rSorted, rTasks, rResults, executors,
          xPc, xSource, xBranch, xOrder, xExpanded, xMaxEntities,
          aPc, aConfig, aEntities, aNeighbors, aExpand, aIdx, aRiskScores, aMaxRisk,
          aTargets, aResponses, aRunning, aResult, stats,
          bPc, bEvents, bLimit, bSem, bTask, bResults, bOrder, bReturn,
          gPc, gPayload, gEntities,
          sCalls, sStats>>

\* what the actions of one component leave alone
notResp == <<expVars, anVars, batchVars, recVars, statVars>>
notExp == <<respVars, anVars, batchVars, recVars, statVars>>
notAn == <<respVars, expVars, batchVars, recVars, statVars>>
notBatch == <<respVars, expVars, anVars, recVars, statVars>>
notRec == <<respVars, expVars, anVars, batchVars, statVars>>
notStat == <<respVars, expVars, anVars, batchVars, recVars>>

----------------------------------------------------------------------------
(* Bounds of the model *)

MaxCustom == 2          \* longest custom_actions list tried
MaxNeighbors == 2       \* longest list one expansion method returns
MaxEntities == 2        \* most entities the recognizer finds in one event
MaxBatch == 3           \* longest list of payloads handed to batch_analyze_events

----------------------------------------------------------------------------
(* models/entities.py *)

EntityTypes == {"user", "ip", "file", "process", "device", "domain", "email", "url"}

PENDING == "PENDING"
INVESTIGATED == "INVESTIGATED"
SCORED == "SCORED"
COMPROMISED == "COMPROMISED"
BLOCKED == "BLOCKED"
BLEEDING_STOP == "BLEEDING_STOP"
WHITELISTED == "WHITELISTED"

EntityStatus == {PENDING, INVESTIGATED, SCORED, COMPROMISED, BLOCKED, BLEEDING_STOP, WHITELISTED}

ThreatLevel == {"LOW", "MEDIUM", "HIGH", "CRITICAL"}

\* SecurityEntity(entity_type, entity_id): the dataclass defaults. confidence
\* is kept in tenths (1.0 is 10); metadata is a function from keys to values.
SecurityEntity(type, id) ==
    [entity_type |-> type, entity_id |-> id, status |-> PENDING, risk_score |-> 0,
     threat_level |-> "LOW", connections |-> <<>>, timeline |-> <<>>,
     metadata |-> <<>>, confidence |-> 10]

\* the level update_risk_score derives from the new score
ThreatLevelOf(new_score) ==
    IF new_score >= 90 THEN "CRITICAL"
    ELSE IF new_score >= 70 THEN "HIGH"
    ELSE IF new_score >= 40 THEN "MEDIUM"
    ELSE "LOW"

update_status(e, new_status, reason) ==
    [e EXCEPT !.status = new_status,
              !.timeline = Append(@, [action |-> "status_change", old_status |-> e.status,
                                      new_status |-> new_status, reason |-> reason])]

\* add_connection(target_entity, connection_type, metadata=...)
add_connection(e, target_entity, connection_type, metadata) ==
    [e EXCEPT !.connections = Append(@, [target_id |-> target_entity.entity_id,
                                         target_type |-> target_entity.entity_type,
                                         connection_type |-> connection_type,
                                         metadata |-> metadata])]

\* mutant: the score is stored and the threat level is left as it was
update_risk_score_keep_level(e, new_score, reason) ==
    [e EXCEPT !.risk_score = new_score,
              !.timeline = Append(@, [action |-> "risk_score_update", old_score |-> e.risk_score,
                                      new_score |-> new_score,
                                      threat_level |-> e.threat_level,
                                      reason |-> reason])]

\* mutant: the timeline entry is put in front
update_risk_score_prepend(e, new_score, reason) ==
    [e EXCEPT !.risk_score = new_score,
              !.threat_level = ThreatLevelOf(new_score),
              !.timeline = <<[action |-> "risk_score_update", old_score |-> e.risk_score,
                              new_score |-> new_score,
                              threat_level |-> ThreatLevelOf(new_score),
                              reason |-> reason]>> \o @]

update_risk_score(e, new_score, reason) ==
    [e EXCEPT !.risk_score = new_score,
              !.threat_level = ThreatLevelOf(new_score),
              !.timeline = Append(@, [action |-> "risk_score_update", old_score |-> e.risk_score,
                                      new_score |-> new_score,
                                      threat_level |-> ThreatLevelOf(new_score),
                                      reason |-> reason])]

\* add_metadata: the key is set and the timeline records it
add_metadata(e, key, value) ==
    [e EXCEPT !.metadata = (key :> value) @@ e.metadata,
              !.timeline = Append(@, [action |-> "metadata_update", key |-> key,
                                      value |-> value])]

\* the value of an entity variable before any call
NoEntity == SecurityEntity("ip", "none")

\* the sequences over S of length at most n
SeqsUpTo(S, n) == UNION {[1..k -> S] : k \in 0..n}

----------------------------------------------------------------------------
(* engines/response_executor.py *)

ResponseAction ==
    {"block_ip", "unblock_ip", "isolate_host",
     "disable_user", "enable_user", "reset_password", "revoke_token",
     "quarantine_file", "delete_file", "restore_file",
     "kill_process", "suspend_process",
     "send_alert", "create_ticket", "notify_admin",
     "collect_evidence", "take_snapshot", "dump_memory"}

SUCCESS == "SUCCESS"
FAILED == "FAILED"

\* ---- the executors' can_handle methods ----
FirewallCanHandle(type, action) ==
    IF type # "ip" THEN FALSE ELSE action \in {"block_ip", "unblock_ip"}

ADCanHandle(type, action) ==
    IF type # "user" THEN FALSE
    ELSE action \in {"disable_user", "enable_user", "reset_password", "revoke_token"}

EDREntityActions ==
    [t \in {"device", "file", "process"} |->
        CASE t = "device" -> {"isolate_host", "take_snapshot", "dump_memory"}
          [] t = "file" -> {"quarantine_file", "delete_file", "restore_file"}
          [] t = "process" -> {"kill_process", "suspend_process"}]

EDRCanHandle(type, action) ==
    type \in DOMAIN EDREntityActions /\ action \in EDREntityActions[type]

AlertCanHandle(type, action) ==
    action \in {"send_alert", "create_ticket", "notify_admin", "collect_evidence"}

\* An executor registered later through add_executor. The model's one extra
\* executor is a second network effector: it claims block_ip and send_alert
\* for IP and User entities, so that it overlaps the firewall and the alert
\* executor.
ExtraCanHandle(type, action) ==
    type \in {"ip", "user"} /\ action \in {"block_ip", "send_alert"}

can_handle(executor, type, action) ==
    CASE executor = "firewall" -> FirewallCanHandle(type, action)
      [] executor = "active_directory" -> ADCanHandle(type, action)
      [] executor = "edr" -> EDRCanHandle(type, action)
      [] executor = "alert" -> AlertCanHandle(type, action)
      [] executor = "extra" -> ExtraCanHandle(type, action)

\* ResponseOrchestrator.__init__: the registry, the policies, the priorities
DefaultExecutors == <<"firewall", "active_directory", "edr", "alert">>

PolicyThresholds == {30, 50, 70, 85, 95}

response_policies ==
    [t \in PolicyThresholds |->
        CASE t = 30 -> <<"send_alert">>
          [] t = 50 -> <<"send_alert", "collect_evidence">>
          [] t = 70 -> <<"send_alert", "create_ticket", "collect_evidence">>
          [] t = 85 -> <<"block_ip", "send_alert", "create_ticket", "notify_admin">>
          [] t = 95 -> <<"block_ip", "disable_user", "isolate_host", "send_alert",
                         "create_ticket", "notify_admin", "collect_evidence">>]

\* action_priorities.get(x, 10)
action_priority(a) ==
    CASE a \in {"block_ip", "isolate_host"} -> 1
      [] a \in {"disable_user", "kill_process"} -> 2
      [] a = "quarantine_file" -> 3
      [] a = "send_alert" -> 4
      [] a \in {"create_ticket", "notify_admin"} -> 5
      [] a = "collect_evidence" -> 6
      [] OTHER -> 10

\* sorted(self.response_policies.keys(), reverse=True)
ThresholdsDescending == <<95, 85, 70, 50, 30>>

RECURSIVE DetermineFrom(_, _)
DetermineFrom(risk_score, i) ==
    IF i > Len(ThresholdsDescending) THEN <<>>
    ELSE IF risk_score >= ThresholdsDescending[i] THEN response_policies[ThresholdsDescending[i]]
    ELSE DetermineFrom(risk_score, i + 1)

\* mutant: the comparison is strict
RECURSIVE DetermineFromStrict(_, _)
DetermineFromStrict(risk_score, i) ==
    IF i > Len(ThresholdsDescending) THEN <<>>
    ELSE IF risk_score > ThresholdsDescending[i] THEN response_policies[ThresholdsDescending[i]]
    ELSE DetermineFromStrict(risk_score, i + 1)

determine_actions_strict(risk_score) == DetermineFromStrict(risk_score, 1)

determine_actions(risk_score) == DetermineFrom(risk_score, 1)

\* sorted(actions, key=priority): Python's sort is stable
PrioritiesAscending == <<1, 2, 3, 4, 5, 6, 10>>

RECURSIVE SortFrom(_, _)
SortFrom(actions, k) ==
    IF k > Len(PrioritiesAscending) THEN <<>>
    ELSE SelectSeq(actions, LAMBDA a : action_priority(a) = PrioritiesAscending[k])
         \o SortFrom(actions, k + 1)

sort_by_priority(actions) == SortFrom(actions, 1)

\* _find_executor: index in the registry of the first executor that can handle
\* the pair, 0 for None
RECURSIVE FindFrom(_, _, _, _)
FindFrom(registry, type, action, i) ==
    IF i > Len(registry) THEN 0
    ELSE IF can_handle(registry[i], type, action) THEN i
    ELSE FindFrom(registry, type, action, i + 1)

\* mutant: the loop does not stop at the first match, the last one wins
RECURSIVE FindLastFrom(_, _, _, _)
FindLastFrom(registry, type, action, i) ==
    IF i < 1 THEN 0
    ELSE IF can_handle(registry[i], type, action) THEN i
    ELSE FindLastFrom(registry, type, action, i - 1)

find_executor_last(registry, type, action) == FindLastFrom(registry, type, action, Len(registry))

find_executor(registry, type, action) == FindFrom(registry, type, action, 1)

MsgNoExecutor == "No suitable executor found"
MsgDone == "done"
MsgEffectorFailure == "effector reported failure"
MsgEffectorRaised == "Exception during action execution: effector error"
MsgTaskException == "task exception"

\* How the executor's execute() call of one task ends: it returns (True, msg),
\* returns (False, msg), raises, or the task itself ends in an exception
\* that leaves _execute_single_action.
Outcomes == {"success", "failed", "raised", "escaped"}

\* mutant: no except clause, an effector's exception leaves the task
execute_single_action_no_catch(action, executor, outcome) ==
    CASE outcome = "success" ->
            [exc |-> FALSE, action |-> action, status |-> SUCCESS,
             message |-> MsgDone, executor |-> executor]
      [] outcome = "failed" ->
            [exc |-> FALSE, action |-> action, status |-> FAILED,
             message |-> MsgEffectorFailure, executor |-> executor]
      [] OTHER ->
            [exc |-> TRUE, action |-> action, status |-> FAILED,
             message |-> MsgTaskException, executor |-> executor]

\* _execute_single_action: what asyncio.gather collects for the task
execute_single_action(action, executor, outcome) ==
    CASE outcome = "success" ->
            [exc |-> FALSE, action |-> action, status |-> SUCCESS,
             message |-> MsgDone, executor |-> executor]
      [] outcome = "failed" ->
            [exc |-> FALSE, action |-> action, status |-> FAILED,
             message |-> MsgEffectorFailure, executor |-> executor]
      [] outcome = "raised" ->
            [exc |-> FALSE, action |-> action, status |-> FAILED,
             message |-> MsgEffectorRaised, executor |-> executor]
      [] outcome = "escaped" ->
            [exc |-> TRUE, action |-> action, status |-> FAILED,
             message |-> MsgTaskException, executor |-> executor]

Result(action, status, message, executor) ==
    [action |-> action, status |-> status, message |-> message, executor |-> executor]

\* lines 559-572: the actions that get a task, and the results of those that do not
Dispatched(registry, type, sorted) ==
    SelectSeq(sorted, LAMBDA a : find_executor(registry, type, a) # 0)

NotDispatched(registry, type, sorted) ==
    SelectSeq(sorted, LAMBDA a : find_executor(registry, type, a) = 0)

MakeTasks(registry, type, sorted) ==
    [i \in 1..Len(Dispatched(registry, type, sorted)) |->
        [action |-> Dispatched(registry, type, sorted)[i],
         executor |-> registry[find_executor(registry, type, Dispatched(registry, type, sorted)[i])],
         outcome |-> "pending"]]

NoExecutorResults(registry, type, sorted) ==
    [i \in 1..Len(NotDispatched(registry, type, sorted)) |->
        Result(NotDispatched(registry, type, sorted)[i], FAILED, MsgNoExecutor, "none")]

\* lines 576-588: the results of the gathered tasks, appended in task order
TaskResults(sorted, tasks) ==
    [i \in 1..Len(tasks) |->
        IF execute_single_action(tasks[i].action, tasks[i].executor, tasks[i].outcome).exc
        THEN Result(sorted[i], FAILED, MsgTaskException, "none")
        ELSE Result(tasks[i].action,
                    execute_single_action(tasks[i].action, tasks[i].executor, tasks[i].outcome).status,
                    execute_single_action(tasks[i].action, tasks[i].executor, tasks[i].outcome).message,
                    tasks[i].executor)]

SuccessfulActions(results) ==
    [i \in 1..Len(SelectSeq(results, LAMBDA r : r.status = SUCCESS)) |->
        SelectSeq(results, LAMBDA r : r.status = SUCCESS)[i].action]

InSeq(x, seq) == \E i \in 1..Len(seq) : seq[i] = x

\* mutant: the early return is gone and failed actions count as well
update_entity_status_all_results(e, results) ==
    LET action_values == [i \in 1..Len(results) |-> results[i].action]
        e1 == IF InSeq("block_ip", action_values) THEN update_status(e, BLOCKED, "ip blocked")
              ELSE IF InSeq("disable_user", action_values)
                   THEN update_status(e, BLEEDING_STOP, "user disabled")
              ELSE IF InSeq("quarantine_file", action_values)
                   THEN update_status(e, BLOCKED, "file quarantined")
              ELSE IF InSeq("isolate_host", action_values)
                   THEN update_status(e, BLOCKED, "host isolated")
              ELSE update_status(e, INVESTIGATED, "response executed")
    IN [e1 EXCEPT !.timeline = Append(@, [action |-> "response_executed",
                                          response_actions |-> action_values,
                                          successful_count |-> Len(action_values),
                                          total_count |-> Len(results)])]

\* _update_entity_status
update_entity_status(e, results) ==
    LET action_values == SuccessfulActions(results)
        e1 == IF InSeq("block_ip", action_values) THEN update_status(e, BLOCKED, "ip blocked")
              ELSE IF InSeq("disable_user", action_values)
                   THEN update_status(e, BLEEDING_STOP, "user disabled")
              ELSE IF InSeq("quarantine_file", action_values)
                   THEN update_status(e, BLOCKED, "file quarantined")
              ELSE IF InSeq("isolate_host", action_values)
                   THEN update_status(e, BLOCKED, "host isolated")
              ELSE update_status(e, INVESTIGATED, "response executed")
    IN IF action_values = <<>> THEN e
       ELSE [e1 EXCEPT !.timeline = Append(@, [action |-> "response_executed",
                                               response_actions |-> action_values,
                                               successful_count |-> Len(action_values),
                                               total_count |-> Len(results)])]

----------------------------------------------------------------------------
(* ResponseOrchestrator.execute_response as a state machine *)

\* scores the entities handed to execute_response carry
ScoreSamples == {0, 30, 50, 70, 85, 95}

\* action names tried as custom actions; "bogus_action" is no ResponseAction
ActionPool == {"block_ip", "disable_user", "quarantine_file", "reset_password",
               "send_alert", "bogus_action"}

RespIdle ==
    /\ rPc = "idle"
    /\ rEntity = NoEntity
    /\ rEntity0 = NoEntity
    /\ rCustom = <<>>
    /\ rRequested = <<>>
    /\ rActions = <<>>
    /\ rSorted = <<>>
    /\ rTasks = <<>>
    /\ rResults = <<>>
    /\ executors = DefaultExecutors

\* add_executor: self.executors.append(executor)
add_executor ==
    /\ rPc = "idle"
    /\ ~ InSeq("extra", executors)
    /\ executors' = Append(executors, "extra")
    /\ UNCHANGED <<rPc, rEntity, rEntity0, rCustom, rRequested, rActions, rSorted, rTasks, rResults>>
    /\ UNCHANGED notResp

\* execute_response from its entry to the first suspension (the gather at
\* line 576) or, when nothing is awaited, to its return
ExecuteResponseStart(entity, custom_actions) ==
    LET actions == IF custom_actions # <<>> THEN custom_actions
                   ELSE determine_actions(entity.risk_score)
        sorted == sort_by_priority(actions)
        tasks == MakeTasks(executors, entity.entity_type, sorted)
        results == NoExecutorResults(executors, entity.entity_type, sorted)
    IN /\ rEntity0' = entity
       /\ rCustom' = custom_actions
       /\ rActions' = actions
       /\ IF actions = <<>>
          THEN /\ rPc' = "returned"
               /\ rEntity' = entity
               /\ rSorted' = <<>>
               /\ rTasks' = <<>>
               /\ rResults' = <<>>
          ELSE IF tasks = <<>>
          THEN /\ rPc' = "returned"
               /\ rEntity' = update_entity_status(entity, results)
               /\ rSorted' = sorted
               /\ rTasks' = <<>>
               /\ rResults' = results
          ELSE /\ rPc' = "gather"
               /\ rEntity' = entity
               /\ rSorted' = sorted
               /\ rTasks' = tasks
               /\ rResults' = results
       /\ UNCHANGED executors
       /\ UNCHANGED notResp

\* the status an entity handed to execute_response carries: fresh, expanded,
\* or left Blocked or Whitelisted by an earlier cycle
StatusSamples == {PENDING, INVESTIGATED, BLOCKED, WHITELISTED}

\* SecurityAnalysisService._execute_responses: execute_response(entity) for an
\* entity of the analysed event
AutoRespond ==
    /\ rPc = "idle"
    /\ \E type \in EntityTypes, score \in ScoreSamples, status \in StatusSamples :
          ExecuteResponseStart(
              [SecurityEntity(type, "e1") EXCEPT !.risk_score = score,
                                                 !.threat_level = ThreatLevelOf(score),
                                                 !.status = status],
              <<>>)
    /\ rRequested' = <<>>

\* entity_type strings handed to manual_response_execution; "gadget" is no EntityType
TypePool == EntityTypes \cup {"gadget"}

MsgNoValidActions == "No valid actions provided"
MsgManualError == "Error in manual response execution"

\* lines 351-357: the action strings that name a ResponseAction, in order
valid_actions(actions) == SelectSeq(actions, LAMBDA a : a \in ResponseAction)

\* SecurityAnalysisService.manual_response_execution up to its first
\* suspension or its return: EntityType(entity_type) raises on an unknown type
\* and the handler returns one error result; with no valid action name it
\* returns one error result; otherwise it calls execute_response on a fresh
\* entity with the valid actions
ManualRespond ==
    /\ rPc = "idle"
    /\ \E entity_type \in TypePool, actions \in SeqsUpTo(ActionPool, MaxCustom) :
          /\ rRequested' = actions
          /\ IF entity_type \notin EntityTypes \/ valid_actions(actions) = <<>>
             THEN /\ rPc' = "rejected"
                  /\ rResults' = <<[status |-> "error",
                                    message |-> IF entity_type \notin EntityTypes
                                                THEN MsgManualError ELSE MsgNoValidActions]>>
                  /\ UNCHANGED <<rEntity, rEntity0, rCustom, rActions, rSorted, rTasks, executors>>
                  /\ UNCHANGED notResp
             ELSE ExecuteResponseStart(SecurityEntity(entity_type, "e1"), valid_actions(actions))

\* one gathered task ends
TaskSettles ==
    /\ rPc = "gather"
    /\ \E i \in 1..Len(rTasks), outcome \in Outcomes :
          /\ rTasks[i].outcome = "pending"
          /\ rTasks' = [rTasks EXCEPT ![i].outcome = outcome]
    /\ UNCHANGED <<rPc, rEntity, rEntity0, rCustom, rRequested, rActions, rSorted, rResults, executors>>
    /\ UNCHANGED notResp

\* lines 576-608: gather has every task's result; collect, update, return
GatherDone ==
    /\ rPc = "gather"
    /\ \A i \in 1..Len(rTasks) : rTasks[i].outcome # "pending"
    /\ rResults' = rResults \o TaskResults(rSorted, rTasks)
    /\ rEntity' = update_entity_status(rEntity, rResults \o TaskResults(rSorted, rTasks))
    /\ rPc' = "returned"
    /\ UNCHANGED <<rEntity0, rCustom, rRequested, rActions, rSorted, rTasks, executors>>
    /\ UNCHANGED notResp

RespNext == add_executor \/ AutoRespond \/ ManualRespond \/ TaskSettles \/ GatherDone


\* the policy lookup alone, over the whole score range
MaxScore == 100

PolicyCall ==
    /\ rPc = "idle"
    /\ \E type \in EntityTypes, score \in 0..MaxScore, status \in {PENDING, INVESTIGATED} :
          ExecuteResponseStart(
              [SecurityEntity(type, "e1") EXCEPT !.risk_score = score,
                                                 !.threat_level = ThreatLevelOf(score),
                                                 !.status = status],
              <<>>)
    /\ rRequested' = <<>>


----------------------------------------------------------------------------
(* engines/connection_expansion.py *)

\* the four expansion methods, in the order their tasks are created
ExpansionMethods == <<"asset_relationship", "threat_intel", "baseline_anomaly",
                      "temporal_correlation">>

\* expansion_config; confidences are kept in tenths
max_entities_per_expansion == 50
min_confidence_threshold == 3

\* relationship_weights.get(relationship_type, 0.5), in tenths
relationship_weight(relationship_type) ==
    CASE relationship_type = "COMMUNICATES_WITH" -> 8
      [] relationship_type = "BELONGS_TO" -> 9
      [] relationship_type = "USED_BY" -> 7
      [] relationship_type = "ACCESSES" -> 6
      [] relationship_type = "EXECUTES" -> 8
      [] relationship_type = "CREATES" -> 7
      [] relationship_type = "MODIFIES" -> 6
      [] relationship_type = "THREAT_INTEL_RELATED" -> 9
      [] relationship_type = "ANOMALY_RELATED" -> 7
      [] OTHER -> 5

\* an entity as the expansion methods build it: status INVESTIGATED and the
\* metadata naming the method and the relationship
Neighbor(type, id, source, relationship) ==
    [SecurityEntity(type, id) EXCEPT
        !.status = INVESTIGATED,
        !.metadata = [expansion_source |-> source, relationship_type |-> relationship]]

\* _expand_by_threat_intel puts the feed's confidence in a related IP's metadata
NeighborWithConfidence(type, id, source, relationship, confidence) ==
    [SecurityEntity(type, id) EXCEPT
        !.status = INVESTIGATED,
        !.metadata = [expansion_source |-> source, relationship_type |-> relationship,
                      confidence |-> confidence]]

\* What one method can return for a source entity of the given type: the
\* entities the backends' rows turn into. Two ids per kind, and confidences
\* on both sides of the threshold.
Candidates(method, type) ==
    CASE method = "asset_relationship" /\ type = "ip" ->
            {Neighbor("user", "n1", method, "USED_BY"),
             Neighbor("device", "n1", method, "BELONGS_TO")}
      [] method = "asset_relationship" /\ type = "user" ->
            {Neighbor("ip", "n1", method, "HAS_IP"),
             Neighbor("file", "n1", method, "ACCESSES")}
      [] method = "threat_intel" /\ type = "ip" ->
            {NeighborWithConfidence("ip", "n1", method, "THREAT_INTEL_RELATED", 2),
             NeighborWithConfidence("ip", "n2", method, "THREAT_INTEL_RELATED", 3)}
      [] method = "baseline_anomaly" /\ type = "ip" ->
            {Neighbor("user", "n1", method, "ANOMALY_RELATED")}
      [] method = "baseline_anomaly" /\ type = "user" ->
            {Neighbor("ip", "n1", method, "ANOMALY_RELATED")}
      [] method = "temporal_correlation" /\ type = "ip" ->
            {Neighbor("ip", "n1", method, "COMMUNICATES_WITH"),
             Neighbor("ip", "n2", method, "COMMUNICATES_WITH")}
      [] method = "temporal_correlation" /\ type = "user" ->
            {Neighbor("file", "n1", method, "ACCESSES")}
      [] OTHER -> {}

\* lines 79-83: the lists of the methods that returned one, in task order
RECURSIVE MergeFrom(_, _)
MergeFrom(branch, k) ==
    IF k > Len(ExpansionMethods) THEN <<>>
    ELSE (IF branch[ExpansionMethods[k]].state = "returned"
          THEN branch[ExpansionMethods[k]].entities ELSE <<>>)
         \o MergeFrom(branch, k + 1)

\* mutant: one failed method makes the whole merge empty
MergeResultsAllOrNothing(branch) ==
    IF \E k \in 1..Len(ExpansionMethods) : branch[ExpansionMethods[k]].state = "failed"
    THEN <<>> ELSE MergeFrom(branch, 1)

MergeResults(branch) == MergeFrom(branch, 1)

\* mutant: the last entity of each (entity_type, entity_id) stays
deduplicate_entities_keep_last(entities) ==
    LET keep == {i \in 1..Len(entities) :
                    \A j \in (i + 1)..Len(entities) :
                        ~ (/\ entities[j].entity_type = entities[i].entity_type
                           /\ entities[j].entity_id = entities[i].entity_id)}
        RECURSIVE Pick(_)
        Pick(i) == IF i > Len(entities) THEN <<>>
                   ELSE IF i \in keep THEN <<entities[i]>> \o Pick(i + 1)
                   ELSE Pick(i + 1)
    IN Pick(1)

\* _deduplicate_entities: the first entity of each (entity_type, entity_id) stays
deduplicate_entities(entities) ==
    LET keep == {i \in 1..Len(entities) :
                    \A j \in 1..(i - 1) :
                        ~ (/\ entities[j].entity_type = entities[i].entity_type
                           /\ entities[j].entity_id = entities[i].entity_id)}
        RECURSIVE Pick(_)
        Pick(i) == IF i > Len(entities) THEN <<>>
                   ELSE IF i \in keep THEN <<entities[i]>> \o Pick(i + 1)
                   ELSE Pick(i + 1)
    IN Pick(1)

\* entity.metadata.get('confidence', entity.confidence)
effective_confidence(e) ==
    IF "confidence" \in DOMAIN e.metadata THEN e.metadata.confidence ELSE e.confidence

\* mutant: the cap cuts the list before the confidence filter runs
filter_by_confidence_cap_first(entities, cap) ==
    SelectSeq(SubSeq(entities, 1, IF Len(entities) < cap THEN Len(entities) ELSE cap),
              LAMBDA e : effective_confidence(e) >= min_confidence_threshold)

\* _filter_by_confidence, with the cap taken from expansion_config
filter_by_confidence(entities, cap) ==
    LET filtered == SelectSeq(entities,
                              LAMBDA e : effective_confidence(e) >= min_confidence_threshold)
    IN SubSeq(filtered, 1, IF Len(filtered) < cap THEN Len(filtered) ELSE cap)

\* target_entity.metadata.get('relationship_type', 'RELATED_TO')
relationship_type_of(e) ==
    IF "relationship_type" \in DOMAIN e.metadata THEN e.metadata.relationship_type
    ELSE "RELATED_TO"

\* target_entity.metadata.get('expansion_source')
expansion_source_of(e) ==
    IF "expansion_source" \in DOMAIN e.metadata THEN e.metadata.expansion_source
    ELSE "None"

EdgeMetadata(target_entity) ==
    [expansion_method |-> expansion_source_of(target_entity),
     weight |-> relationship_weight(relationship_type_of(target_entity))]

\* mutant: only the forward edge is written
connect_target_forward_only(source_entity, target_entity) == target_entity

\* lines 732-739: the target's edge back to the source
connect_target(source_entity, target_entity) ==
    add_connection(target_entity, source_entity,
                   "REVERSE_" \o relationship_type_of(target_entity),
                   EdgeMetadata(target_entity))

\* lines 723-730: the source's edges, one per expanded entity, in list order
RECURSIVE ConnectSourceFrom(_, _, _)
ConnectSourceFrom(source_entity, expanded_entities, k) ==
    IF k > Len(expanded_entities) THEN source_entity
    ELSE ConnectSourceFrom(
            add_connection(source_entity, expanded_entities[k],
                           relationship_type_of(expanded_entities[k]),
                           EdgeMetadata(expanded_entities[k])),
            expanded_entities, k + 1)

\* _establish_connections: the source and the expanded entities afterwards
establish_connections(source_entity, expanded_entities) ==
    [source |-> ConnectSourceFrom(source_entity, expanded_entities, 1),
     expanded |-> [k \in 1..Len(expanded_entities) |->
                      connect_target(source_entity, expanded_entities[k])]]

----------------------------------------------------------------------------
(* ConnectionExpansionEngine.expand_entity_connections as a state machine *)

\* a second, small value of max_entities_per_expansion, so that the cap cuts
SmallCap == 2

PendingBranches == [m \in {ExpansionMethods[k] : k \in 1..Len(ExpansionMethods)} |->
                       [state |-> "pending", entities |-> <<>>]]

ExpIdle ==
    /\ xPc = "idle"
    /\ xSource = NoEntity
    /\ xBranch = PendingBranches
    /\ xOrder = <<>>
    /\ xExpanded = <<>>
    /\ xMaxEntities = max_entities_per_expansion

\* lines 54-76: the four tasks are created and gathered
ExpandStart ==
    /\ xPc = "idle"
    /\ \E type \in {"ip", "user"}, cap \in {SmallCap, max_entities_per_expansion} :
          /\ xSource' = SecurityEntity(type, "s")
          /\ xMaxEntities' = cap
    /\ xPc' = "gather"
    /\ UNCHANGED <<xBranch, xOrder, xExpanded>>
    /\ UNCHANGED notExp

\* one method returns its list of at most n entities; a backend error inside
\* the method is caught there and the method returns what it has, possibly
\* nothing. With ordered, the moment of the return is recorded.
MethodReturnsUpTo(n, ordered) ==
    /\ xPc = "gather"
    /\ \E k \in 1..Len(ExpansionMethods) :
          LET method == ExpansionMethods[k] IN
          /\ xBranch[method].state = "pending"
          /\ \E entities \in SeqsUpTo(Candidates(method, xSource.entity_type), n) :
                xBranch' = [xBranch EXCEPT ![method] = [state |-> "returned",
                                                          entities |-> entities]]
          /\ xOrder' = IF ordered THEN Append(xOrder, method) ELSE xOrder
    /\ UNCHANGED <<xPc, xSource, xExpanded, xMaxEntities>>
    /\ UNCHANGED notExp

MethodReturns == MethodReturnsUpTo(MaxNeighbors, FALSE)

\* one method's task ends in an exception, which gather hands back as a result
MethodFailsAt(ordered) ==
    /\ xPc = "gather"
    /\ \E k \in 1..Len(ExpansionMethods) :
          /\ xBranch[ExpansionMethods[k]].state = "pending"
          /\ xBranch' = [xBranch EXCEPT ![ExpansionMethods[k]].state = "failed"]
          /\ xOrder' = IF ordered THEN Append(xOrder, ExpansionMethods[k]) ELSE xOrder
    /\ UNCHANGED <<xPc, xSource, xExpanded, xMaxEntities>>
    /\ UNCHANGED notExp

MethodFails == MethodFailsAt(FALSE)

\* lines 78-98: merge, deduplicate, filter, connect, mark the source
ExpandDone ==
    /\ xPc = "gather"
    /\ \A k \in 1..Len(ExpansionMethods) : xBranch[ExpansionMethods[k]].state # "pending"
    /\ LET survivors == filter_by_confidence(deduplicate_entities(MergeResults(xBranch)),
                                             xMaxEntities)
           connected == establish_connections(xSource, survivors)
       IN /\ xExpanded' = connected.expanded
          /\ xSource' = update_status(connected.source, INVESTIGATED, "expansion done")
    /\ xPc' = "returned"
    /\ UNCHANGED <<xBranch, xOrder, xMaxEntities>>
    /\ UNCHANGED notExp

ExpNext == ExpandStart \/ MethodReturns \/ MethodFails \/ ExpandDone

\* the same call with the order in which the four tasks end kept on record
MaxArrivals == 1

MethodArrives == MethodReturnsUpTo(MaxArrivals, TRUE)

MethodFailsInOrder == MethodFailsAt(TRUE)

ExpOrderNext == ExpandStart \/ MethodArrives \/ MethodFailsInOrder \/ ExpandDone

----------------------------------------------------------------------------
(* engines/risk_scoring.py; a score is the whole points of the float *)

\* values of base_score + indicator_score * 0.8 that are tried
RawScoreSamples == {20, 42, 67, 94}

\* values _calculate_multi_point_risk returns that are tried
MultiPointSamples == {0, 100}

\* 100 / (1 + exp(-(final_score - 50) / 20)) at the samples
sigmoid(final_score) ==
    CASE final_score = 20 -> 18
      [] final_score = 42 -> 40
      [] final_score = 67 -> 70
      [] final_score = 94 -> 90

\* min(max(x, 0.0), 100.0)
clamp_score(x) == IF x < 0 THEN 0 ELSE IF x > 100 THEN 100 ELSE x

\* _calculate_single_point_risk, from the score before normalisation
calculate_single_point_risk(final_score) == clamp_score(sigmoid(final_score))

\* _combine_scores
combine_scores(single_point_score, multi_point_score) ==
    IF multi_point_score = 0 THEN single_point_score
    ELSE clamp_score((4 * single_point_score + 6 * multi_point_score) \div 10)

\* _get_context_entities: the other entities of the event the target has an
\* edge to, at most ten
get_context_entities(target_entity, all_entities) ==
    LET connected_entity_ids == {target_entity.connections[k].target_id :
                                    k \in 1..Len(target_entity.connections)}
        context == SelectSeq(all_entities,
                             LAMBDA e : /\ e.entity_id # target_entity.entity_id
                                        /\ e.entity_id \in connected_entity_ids)
    IN SubSeq(context, 1, IF Len(context) < 10 THEN Len(context) ELSE 10)

\* _calculate_multi_point_risk: 0 for fewer than two entities, else the value
\* its three analyses give
calculate_multi_point_risk(all_entities, value) ==
    IF Len(all_entities) < 2 THEN 0 ELSE value

\* mutant: the multi-point score is used whether or not there is a context
calculate_entity_risk_score_always_multi(entity, context_entities, final_score, multi_point) ==
    LET single_point_score == calculate_single_point_risk(final_score)
        score == combine_scores(single_point_score, multi_point)
    IN [score |-> score,
        entity |-> update_risk_score(entity, score,
                                     [single_point_score |-> single_point_score,
                                      multi_point_score |-> multi_point])]

\* calculate_entity_risk_score when nothing raises: the final score and the
\* entity after update_risk_score; the reason names the two scores
calculate_entity_risk_score(entity, context_entities, final_score, multi_point) ==
    LET single_point_score == calculate_single_point_risk(final_score)
        multi_point_score ==
            IF context_entities # <<>>
            THEN calculate_multi_point_risk(<<entity>> \o context_entities, multi_point)
            ELSE 0
        score == combine_scores(single_point_score, multi_point_score)
    IN [score |-> score,
        entity |-> update_risk_score(entity, score,
                                     [single_point_score |-> single_point_score,
                                      multi_point_score |-> multi_point_score])]
----------------------------------------------------------------------------
(* engines/entity_recognizer.py *)

\* A field value is a string, kept as its '/'-separated components and a flag
\* for a leading '/'. The values tried: "/opt/a/agent", "/opt/b/agent",
\* "agent" and "10.0.0.1" in the fields the extractors read; none of them
\* has a match of the domain, email, url or hash pattern.
PathA == [abs |-> TRUE, parts |-> <<"opt", "a", "agent">>]
PathB == [abs |-> TRUE, parts |-> <<"opt", "b", "agent">>]
Word == [abs |-> FALSE, parts |-> <<"agent">>]
IpValue == [abs |-> FALSE, parts |-> <<"10.0.0.1">>]

ValuePool == {PathA, PathB, Word, IpValue}

\* a field the payload does not have
Absent == [abs |-> FALSE, parts |-> <<>>]

\* the fields of the payload that are tried, in the order the payload lists them
PayloadFields == <<"src_ip", "username", "file_path", "process_name", "image_name">>

ip_fields == <<"src_ip">>
user_fields == <<"username">>
file_fields == <<"file_path">>
process_fields == <<"process_name", "image_name">>

\* _is_valid_ip: ipaddress.ip_address accepts the value
is_valid_ip(v) == v = IpValue

\* _is_valid_username: 2 to 50 characters and none of the excluded names,
\* which every value tried satisfies
is_valid_username(v) == v \in ValuePool

\* _is_valid_file_path: at least three characters and a leading '/'
is_valid_file_path(v) == v.abs

\* _extract_process_name: the part after the last separator
extract_process_name(process_info) ==
    IF process_info.abs \/ Len(process_info.parts) > 1
    THEN [abs |-> FALSE, parts |-> <<process_info.parts[Len(process_info.parts)]>>]
    ELSE process_info

\* the validity test of each _extract_<type>_entities
accepts(type, v) ==
    CASE type = "ip" -> is_valid_ip(v)
      [] type = "user" -> is_valid_username(v)
      [] type = "file" -> is_valid_file_path(v)
      [] type = "process" -> TRUE

\* the entity_id each _extract_<type>_entities gives the entity
entity_id_of(type, v) ==
    IF type = "process" THEN extract_process_name(v) ELSE v

\* a recognised entity before the stamps of lines 91-94
RecognizedEntity(type, v, field) ==
    [SecurityEntity(type, entity_id_of(type, v)) EXCEPT
        !.metadata = [field_source |-> field]]

\* The loop over the structured fields of one type: a value is taken when it
\* is present, not yet in extracted_values and valid; the value as read from
\* the field is what is added to extracted_values.
RECURSIVE extract_fields(_, _, _, _, _)
extract_fields(type, fields, k, log_data, extracted_values) ==
    IF k > Len(fields) THEN [entities |-> <<>>, extracted_values |-> extracted_values]
    ELSE LET v == log_data[fields[k]]
             taken == /\ v # Absent
                      /\ v \notin extracted_values
                      /\ accepts(type, v)
             rest == extract_fields(type, fields, k + 1, log_data,
                                    IF taken THEN extracted_values \cup {v}
                                    ELSE extracted_values)
         IN [entities |-> (IF taken THEN <<RecognizedEntity(type, v, fields[k])>>
                           ELSE <<>>) \o rest.entities,
             extracted_values |-> rest.extracted_values]

\* lines 126-140: the IP pattern over the payload's text
extract_ip_from_text(log_data, extracted_values) ==
    IF /\ \E f \in DOMAIN log_data : log_data[f] = IpValue
       /\ IpValue \notin extracted_values
    THEN [entities |-> <<RecognizedEntity("ip", IpValue, "text_extraction")>>,
          extracted_values |-> extracted_values \cup {IpValue}]
    ELSE [entities |-> <<>>, extracted_values |-> extracted_values]

\* values of the unknown field that the text patterns match: a domain name
\* and the MD5 of the empty string
DomainValue == [abs |-> FALSE, parts |-> <<"evil.example.com">>]
Md5Value == [abs |-> FALSE, parts |-> <<"d41d8cd98f00b204e9800998ecf8427e">>]

\* the keys of self.compiled_patterns, lines 23-43
compiled_patterns ==
    {"ip", "domain", "email", "url", "file_path_windows", "file_path_linux",
     "hash_md5", "hash_sha1", "hash_sha256", "process_name", "username"}

\* lines 244-259: the domain pattern over the payload's text
extract_domain_from_text(log_data, extracted_values) ==
    IF /\ "domain" \in compiled_patterns
       /\ \E f \in DOMAIN log_data : log_data[f] = DomainValue
       /\ DomainValue \notin extracted_values
    THEN [entities |-> <<RecognizedEntity("domain", DomainValue, "text_extraction")>>,
          extracted_values |-> extracted_values \cup {DomainValue}]
    ELSE [entities |-> <<>>, extracted_values |-> extracted_values]

\* lines 373-388: for hash_type in ['md5', 'sha1', 'sha256'], the pattern of
\* that type over the payload's text, if hash_type is a key of compiled_patterns
extract_hash_from_text(log_data, extracted_values) ==
    IF /\ "md5" \in compiled_patterns
       /\ \E f \in DOMAIN log_data : log_data[f] = Md5Value
       /\ Md5Value \notin extracted_values
    THEN [entities |-> <<[SecurityEntity("file", Md5Value) EXCEPT
                            !.metadata = [field_source |-> "text_extraction",
                                          hash_type |-> "MD5", is_hash |-> TRUE]]>>,
          extracted_values |-> extracted_values \cup {Md5Value}]
    ELSE [entities |-> <<>>, extracted_values |-> extracted_values]

\* lines 91-94: the stamps every entity gets
stamp(e, event_id) ==
    add_metadata(add_metadata(e, "source_event_id", event_id),
                 "extraction_timestamp", "now")

\* a field no extractor reads, and a value of it that json.dumps cannot
\* encode (a datetime, bytes, a set)
UnknownField == "detail"

Opaque == [abs |-> FALSE, parts |-> <<"<datetime>">>]

AllFields == {PayloadFields[k] : k \in 1..Len(PayloadFields)} \cup {UnknownField}

\* line 78: log_text = json.dumps(log_data) raises TypeError
json_dumps_raises(log_data) == \E f \in AllFields : log_data[f] = Opaque

\* lines 96-99: the except clause around the whole extraction logs the error
\* and returns the entities list as it stands, empty at line 78
on_extraction_error(entities) == <<>>

\* extract_entities for the fields and values tried
extract_entities(log_data, event_id) ==
    LET ips == extract_fields("ip", ip_fields, 1, log_data, {})
        ips_text == extract_ip_from_text(log_data, ips.extracted_values)
        users == extract_fields("user", user_fields, 1, log_data,
                                ips_text.extracted_values)
        files == extract_fields("file", file_fields, 1, log_data, users.extracted_values)
        processes == extract_fields("process", process_fields, 1, log_data,
                                    files.extracted_values)
        domains == extract_domain_from_text(log_data, processes.extracted_values)
        hashes == extract_hash_from_text(log_data, domains.extracted_values)
        entities == ips.entities \o ips_text.entities \o users.entities
                    \o files.entities \o processes.entities
                    \o domains.entities \o hashes.entities
        stamped == [k \in 1..Len(entities) |-> stamp(entities[k], event_id)]
    IN IF json_dumps_raises(log_data) THEN on_extraction_error(stamped) ELSE stamped

Payloads ==
    {log_data \in [AllFields -> ValuePool \cup {Absent, Opaque, DomainValue, Md5Value}] :
        /\ \A k \in 1..Len(PayloadFields) : log_data[PayloadFields[k]] \in ValuePool \cup {Absent}
        /\ log_data[UnknownField] \in {Absent, Opaque, IpValue, DomainValue, Md5Value}}

EmptyPayload == [f \in AllFields |-> Absent]

RecIdle ==
    /\ gPc = "idle"
    /\ gPayload = EmptyPayload
    /\ gEntities = <<>>

\* extract_entities(log_data, event_id) from entry to return
ExtractEntities ==
    /\ gPc = "idle"
    /\ \E log_data \in Payloads :
          /\ gPayload' = log_data
          /\ gEntities' = extract_entities(log_data, "event")
    /\ gPc' = "returned"
    /\ UNCHANGED notRec

RecNext == ExtractEntities
----------------------------------------------------------------------------
(* SecurityAnalysisService.analyze_security_event as a state machine *)

\* what the recognizer can find in a payload, in the order it emits types
EventEntityPool ==
    <<stamp([SecurityEntity("ip", "ip1") EXCEPT !.metadata = [field_source |-> "src_ip"]],
            "event"),
      stamp([SecurityEntity("user", "u1") EXCEPT !.metadata = [field_source |-> "username"]],
            "event"),
      stamp([SecurityEntity("file", "f1") EXCEPT !.metadata = [field_source |-> "file_path"]],
            "event")>>

\* the lists the recognizer returns: the pool's subsequences of bounded length
RecognizedLists ==
    {SelectSeq(EventEntityPool, LAMBDA e : e.entity_id \in ids) :
        ids \in {s \in SUBSET {"ip1", "u1", "f1"} : Cardinality(s) <= MaxEntities}}

\* processing_config: the stage switches in every combination
Configs ==
    [enable_connection_expansion : BOOLEAN, enable_risk_scoring : BOOLEAN,
     enable_auto_response : BOOLEAN, min_risk_threshold_for_response : {50}]

DefaultConfig ==
    [enable_connection_expansion |-> TRUE, enable_risk_scoring |-> TRUE,
     enable_auto_response |-> TRUE, min_risk_threshold_for_response |-> 50]

NoStats ==
    [total_events_processed |-> 0, total_entities_extracted |-> 0,
     total_connections_expanded |-> 0, total_responses_executed |-> 0]

NoResult == [status |-> "none"]

\* mutant: the entity counter is stored, not added to
count_entities_overwrite(processing_stats, n) ==
    [processing_stats EXCEPT !.total_entities_extracted = n]

\* line 104: self.processing_stats['total_entities_extracted'] += len(entities)
count_entities(processing_stats, n) ==
    [processing_stats EXCEPT !.total_entities_extracted = @ + n]

\* _expand_connections, lines 221-223
count_connections(processing_stats, n) ==
    [processing_stats EXCEPT !.total_connections_expanded = @ + n]

\* mutant: the event counter is stored, not added to
count_event_overwrite(processing_stats, n) ==
    [processing_stats EXCEPT !.total_events_processed = 1,
                             !.total_responses_executed = @ + n]

\* lines 130-132: one more event, len(response_results) more responses
count_event(processing_stats, n) ==
    [processing_stats EXCEPT !.total_events_processed = @ + 1,
                             !.total_responses_executed = @ + n]

\* _create_analysis_result
create_analysis_result(entities, max_risk_score, response_results) ==
    [status |-> "completed",
     summary |-> [entities_extracted |-> Len(entities),
                  max_risk_score |-> max_risk_score,
                  responses_executed |-> Len(response_results),
                  high_risk_entities |-> Len(SelectSeq(entities,
                                                       LAMBDA e : e.risk_score >= 70))],
     entities |-> entities,
     response_results |-> response_results]

\* mutant: no except clause at the top of analyze_security_event
on_exception_propagate == [pc |-> "raised", result |-> NoResult]

\* lines 143-153: the except clause of analyze_security_event
on_exception ==
    [pc |-> "returned",
     result |-> [status |-> "error", error_message |-> "Error analyzing security event"]]

\* max(risk_scores.values()) if risk_scores else 0.0
max_of_scores(risk_scores) ==
    IF DOMAIN risk_scores = {} THEN 0
    ELSE CHOOSE m \in {risk_scores[k] : k \in DOMAIN risk_scores} :
            \A k \in DOMAIN risk_scores : risk_scores[k] <= m

\* mutant: every entity of the event gets a response task
response_targets_all(config, entities) == [i \in 1..Len(entities) |-> i]

\* lines 255-257: the entities _execute_responses creates a task for
response_targets(config, entities) ==
    SelectSeq([i \in 1..Len(entities) |-> i],
              LAMBDA i : entities[i].risk_score >= config.min_risk_threshold_for_response)

\* lines 120-124: the response stage runs or the call goes on to its end
enter_response(config, entities, max_risk_score) ==
    IF config.enable_auto_response /\ max_risk_score >= config.min_risk_threshold_for_response
    THEN [pc |-> "respond", max |-> max_risk_score,
          targets |-> response_targets(config, entities)]
    ELSE [pc |-> "finish", max |-> max_risk_score, targets |-> <<>>]

\* mutant: the scoring stage runs whatever the switch says
enter_scoring_always(config, entities) == [pc |-> "score", max |-> 0, targets |-> <<>>]

\* lines 112-117
enter_scoring(config, entities) ==
    IF config.enable_risk_scoring THEN [pc |-> "score", max |-> 0, targets |-> <<>>]
    ELSE enter_response(config, entities, 0)

\* lines 107-110
enter_expansion(config, entities) ==
    IF config.enable_connection_expansion THEN [pc |-> "expand", max |-> 0, targets |-> <<>>]
    ELSE enter_scoring(config, entities)

\* mutant: no early return when nothing was recognized
after_extraction_no_early_return(config, entities) == enter_expansion(config, entities)

\* lines 99-110: with no entity the call returns at once
after_extraction(config, entities) ==
    IF entities = <<>> THEN [pc |-> "returned", max |-> 0, targets |-> <<>>]
    ELSE enter_expansion(config, entities)

AnIdle ==
    /\ aPc = "idle"
    /\ aConfig = DefaultConfig
    /\ aEntities = <<>>
    /\ aNeighbors = <<>>
    /\ aExpand = <<>>
    /\ aIdx = 1
    /\ aRiskScores = <<>>
    /\ aMaxRisk = 0
    /\ aTargets = <<>>
    /\ aResponses = <<>>
    /\ aRunning = {}
    /\ aResult = NoResult
    /\ stats = NoStats

\* How an entity's expansion ends in the pipeline: an error caught inside
\* expand_entity_connections, no neighbour, or one neighbour that is another
\* entity of the same event (a device when the event has one entity).
ExpandOutcomes == {"failed", "none", "linked"}

pipeline_neighbors(entities, i) ==
    IF Len(entities) = 1
    THEN <<Neighbor("device", "d1", "asset_relationship", "BELONGS_TO")>>
    ELSE <<Neighbor(entities[(i % Len(entities)) + 1].entity_type,
                    entities[(i % Len(entities)) + 1].entity_id,
                    "asset_relationship", "USED_BY")>>

\* How every effector call of one entity's response ends in the pipeline
RespondOutcomes == {"success", "raised"}

\* execute_response(entity) from entry to return, each task ending as given
execute_response(registry, entity, outcome) ==
    LET actions == determine_actions(entity.risk_score)
        sorted == sort_by_priority(actions)
        tasks == [k \in 1..Len(MakeTasks(registry, entity.entity_type, sorted)) |->
                     [MakeTasks(registry, entity.entity_type, sorted)[k]
                         EXCEPT !.outcome = outcome]]
        results == NoExecutorResults(registry, entity.entity_type, sorted)
                   \o TaskResults(sorted, tasks)
    IN IF actions = <<>> THEN [entity |-> entity, results |-> <<>>]
       ELSE [entity |-> update_entity_status(entity, results), results |-> results]

\* lines 266-268: result['entity_id'] = entity_id
with_entity_id(results, entity_id) ==
    [k \in 1..Len(results) |->
        [entity_id |-> entity_id, action |-> results[k].action,
         status |-> results[k].status, message |-> results[k].message,
         executor |-> results[k].executor]]

RECURSIVE total_expanded(_, _)
total_expanded(neighbors, k) ==
    IF k > Len(neighbors) THEN 0
    ELSE Len(neighbors[k]) + total_expanded(neighbors, k + 1)

\* lines 71-110: the event is created and its entities are extracted; an
\* extraction that raises gives the empty list as well
AnalyzeStart ==
    /\ aPc = "idle"
    /\ \E config \in Configs, entities \in RecognizedLists :
          /\ aConfig' = config
          /\ aEntities' = entities
          /\ aNeighbors' = [i \in 1..Len(entities) |-> <<>>]
          /\ aExpand' = [i \in 1..Len(entities) |-> "pending"]
          /\ aPc' = after_extraction(config, entities).pc
          /\ aMaxRisk' = after_extraction(config, entities).max
          /\ aTargets' = after_extraction(config, entities).targets
          /\ IF after_extraction(config, entities).pc = "returned"
             THEN /\ aResult' = create_analysis_result(entities, 0, <<>>)
                  /\ UNCHANGED stats
             ELSE /\ stats' = count_entities(stats, Len(entities))
                  /\ UNCHANGED aResult
    /\ UNCHANGED <<aIdx, aRiskScores, aResponses, aRunning>>
    /\ UNCHANGED notAn

\* _expand_connections: one entity's expand_entity_connections returns
AnExpandEntity ==
    /\ aPc = "expand"
    /\ \E i \in 1..Len(aEntities), outcome \in ExpandOutcomes :
          LET survivors == IF outcome = "linked" THEN pipeline_neighbors(aEntities, i)
                           ELSE <<>>
              connected == establish_connections(aEntities[i], survivors)
          IN /\ aExpand[i] = "pending"
             /\ aExpand' = [aExpand EXCEPT ![i] = "returned"]
             /\ IF outcome = "failed"
                THEN UNCHANGED <<aEntities, aNeighbors>>
                ELSE /\ aEntities' = [aEntities EXCEPT ![i] =
                                         update_status(connected.source, INVESTIGATED,
                                                       "expansion done")]
                     /\ aNeighbors' = [aNeighbors EXCEPT ![i] = connected.expanded]
    /\ UNCHANGED <<aPc, aConfig, aIdx, aRiskScores, aMaxRisk, aTargets, aResponses,
                   aRunning, aResult, stats>>
    /\ UNCHANGED notAn

\* lines 219-227 and 112-124: the gather of the expansions is complete
AnExpandStageDone ==
    /\ aPc = "expand"
    /\ \A i \in 1..Len(aEntities) : aExpand[i] = "returned"
    /\ stats' = count_connections(stats, total_expanded(aNeighbors, 1))
    /\ aPc' = enter_scoring(aConfig, aEntities).pc
    /\ aMaxRisk' = enter_scoring(aConfig, aEntities).max
    /\ aTargets' = enter_scoring(aConfig, aEntities).targets
    /\ UNCHANGED <<aConfig, aEntities, aNeighbors, aExpand, aIdx, aRiskScores, aResponses,
                   aRunning, aResult>>
    /\ UNCHANGED notAn

\* calculate_batch_risk_scores, lines 135-141: the next entity's
\* calculate_entity_risk_score returns, with a score or after its except clause
AnScoreEntity ==
    /\ aPc = "score"
    /\ aIdx <= Len(aEntities)
    /\ LET entity == aEntities[aIdx]
           context_entities == get_context_entities(entity, aEntities)
       IN \/ /\ aRiskScores' = (entity.entity_id :> 0) @@ aRiskScores
             /\ UNCHANGED aEntities
          \/ \E final_score \in RawScoreSamples,
                multi_point \in MultiPointSamples :
                LET scored == calculate_entity_risk_score(entity, context_entities,
                                                          final_score, multi_point)
                IN /\ aRiskScores' = (entity.entity_id :> scored.score) @@ aRiskScores
                   /\ aEntities' = [aEntities EXCEPT ![aIdx] = scored.entity]
    /\ aIdx' = aIdx + 1
    /\ UNCHANGED <<aPc, aConfig, aNeighbors, aExpand, aMaxRisk, aTargets, aResponses,
                   aRunning, aResult, stats>>
    /\ UNCHANGED notAn

\* _calculate_risk_scores line 239 and lines 115-124
AnScoreStageDone ==
    /\ aPc = "score"
    /\ aIdx > Len(aEntities)
    /\ aPc' = enter_response(aConfig, aEntities, max_of_scores(aRiskScores)).pc
    /\ aMaxRisk' = enter_response(aConfig, aEntities, max_of_scores(aRiskScores)).max
    /\ aTargets' = enter_response(aConfig, aEntities, max_of_scores(aRiskScores)).targets
    /\ aIdx' = 1
    /\ UNCHANGED <<aConfig, aEntities, aNeighbors, aExpand, aRiskScores, aResponses,
                   aRunning, aResult, stats>>
    /\ UNCHANGED notAn

\* _execute_responses, line 264: the loop reaches `await task`; the coroutine
\* execute_response(entity) made at line 257 begins to run only now
AnRespondStart ==
    /\ aPc = "respond"
    /\ aIdx <= Len(aTargets)
    /\ aTargets[aIdx] \notin aRunning
    /\ aRunning' = aRunning \cup {aTargets[aIdx]}
    /\ UNCHANGED <<aPc, aConfig, aEntities, aNeighbors, aExpand, aIdx, aRiskScores,
                   aMaxRisk, aTargets, aResponses, aResult, stats>>
    /\ UNCHANGED notAn

\* _execute_responses, lines 264-267: the awaited execute_response returns and
\* the loop goes on to the next task
AnRespondEntity ==
    /\ aPc = "respond"
    /\ aIdx <= Len(aTargets)
    /\ aTargets[aIdx] \in aRunning
    /\ \E outcome \in RespondOutcomes :
          LET i == aTargets[aIdx]
              responded == execute_response(executors, aEntities[i], outcome)
          IN /\ aEntities' = [aEntities EXCEPT ![i] = responded.entity]
             /\ aResponses' = aResponses \o with_entity_id(responded.results,
                                                           aEntities[i].entity_id)
    /\ aRunning' = aRunning \ {aTargets[aIdx]}
    /\ aIdx' = aIdx + 1
    /\ UNCHANGED <<aPc, aConfig, aNeighbors, aExpand, aRiskScores, aMaxRisk, aTargets,
                   aResult, stats>>
    /\ UNCHANGED notAn

\* lines 126-141: statistics and the completed result
AnalyzeReturn ==
    /\ \/ aPc = "finish"
       \/ aPc = "respond" /\ aIdx > Len(aTargets)
    /\ stats' = count_event(stats, Len(aResponses))
    /\ aResult' = create_analysis_result(aEntities, aMaxRisk, aResponses)
    /\ aPc' = "returned"
    /\ UNCHANGED <<aConfig, aEntities, aNeighbors, aExpand, aIdx, aRiskScores, aMaxRisk,
                   aTargets, aResponses, aRunning>>
    /\ UNCHANGED notAn

\* an exception no stage absorbed reaches the try block of analyze_security_event
AnPipelineError ==
    /\ aPc \in {"expand", "score", "respond", "finish"}
    /\ aPc' = on_exception.pc
    /\ aResult' = on_exception.result
    /\ aRunning' = {}
    /\ UNCHANGED <<aConfig, aEntities, aNeighbors, aExpand, aIdx, aRiskScores, aMaxRisk,
                   aTargets, aResponses, stats>>
    /\ UNCHANGED notAn

AnNext ==
    \/ AnalyzeStart
    \/ AnExpandEntity
    \/ AnExpandStageDone
    \/ AnScoreEntity
    \/ AnScoreStageDone
    \/ AnRespondStart
    \/ AnRespondEntity
    \/ AnalyzeReturn
    \/ AnPipelineError
----------------------------------------------------------------------------
(* SecurityAnalysisService.batch_analyze_events as a state machine *)

\* processing_config['max_concurrent_processing'] as shipped
max_concurrent_processing == 10

\* the configured limits tried: the small ones bind, the default does not
MaxConcurrent == 2

ConcurrencyLimits == (1..MaxConcurrent) \cup {max_concurrent_processing}

\* payloads; one may occur twice in a batch
PayloadPool == {"p1", "p2"}

\* how one analyze_security_event call ends (it returns in every case)
AnalysisStatuses == {"completed", "error"}

NoAnalysis == [status |-> "none", payload |-> "none"]

BatchTimeoutResult == [status |-> "timeout", message |-> "Batch processing timed out"]

\* mutant: the semaphore lets every task in
semaphore_locked_never(value) == FALSE

\* asyncio.Semaphore.locked() for the semaphore of line 160, no task queued
semaphore_locked(value) == value = 0

\* mutant: the results are collected in the order the analyses finished
gather_results_as_completed(results, order) ==
    [k \in 1..Len(order) |-> results[order[k]]]

\* asyncio.gather(*tasks) of line 171 and the loop of lines 176-187: one
\* result per task, in the order of the tasks
gather_results(results, order) ==
    [i \in 1..Len(results) |-> results[i]]

\* mutant: the timeout is raised as soon as the deadline has fired
gather_cancelled_without_waiting(tasks) == TRUE

\* lines 170-173: wait_for cancels the gather and waits for it; the gather is
\* done when every task is
gather_cancelled(tasks) ==
    \A i \in 1..Len(tasks) : tasks[i] \in {"done", "cancelled"}

\* mutant: no except clause for the timeout
on_timeout_propagate == [pc |-> "raised", result |-> <<>>]

\* lines 192-194
on_timeout == [pc |-> "returned", result |-> <<BatchTimeoutResult>>]

BatchIdle ==
    /\ bPc = "idle"
    /\ bEvents = <<>>
    /\ bLimit = max_concurrent_processing
    /\ bSem = max_concurrent_processing
    /\ bTask = <<>>
    /\ bResults = <<>>
    /\ bOrder = <<>>
    /\ bReturn = <<>>

\* lines 157-173: the semaphore and the tasks are created and gathered under
\* the deadline; with no payload the gather is complete at once
BatchStart ==
    /\ bPc = "idle"
    /\ \E events \in SeqsUpTo(PayloadPool, MaxBatch), limit \in ConcurrencyLimits :
          /\ bEvents' = events
          /\ bLimit' = limit
          /\ bSem' = limit
          /\ bTask' = [i \in 1..Len(events) |-> "waiting"]
          /\ bResults' = [i \in 1..Len(events) |-> NoAnalysis]
          /\ bPc' = IF events = <<>> THEN "returned" ELSE "gather"
    /\ UNCHANGED <<bOrder, bReturn>>
    /\ UNCHANGED notBatch

\* line 163: a task enters the semaphore; the semaphore serves its waiters in
\* the order they arrived, which is the order of the tasks
BatchAcquire ==
    /\ bPc = "gather"
    /\ \E i \in 1..Len(bTask) :
          /\ bTask[i] = "waiting"
          /\ \A j \in 1..(i - 1) : bTask[j] # "waiting"
          /\ ~ semaphore_locked(bSem)
          /\ bTask' = [bTask EXCEPT ![i] = "running"]
          /\ bSem' = bSem - 1
    /\ UNCHANGED <<bPc, bEvents, bLimit, bResults, bOrder, bReturn>>
    /\ UNCHANGED notBatch

\* lines 163-164: a task's analyze_security_event returns and the task leaves
\* the semaphore
BatchAnalysisReturns ==
    /\ bPc = "gather"
    /\ \E i \in 1..Len(bTask), status \in AnalysisStatuses :
          /\ bTask[i] = "running"
          /\ bTask' = [bTask EXCEPT ![i] = "done"]
          /\ bResults' = [bResults EXCEPT ![i] = [status |-> status, payload |-> bEvents[i]]]
          /\ bOrder' = Append(bOrder, i)
          /\ bSem' = bSem + 1
    /\ UNCHANGED <<bPc, bEvents, bLimit, bReturn>>
    /\ UNCHANGED notBatch

\* lines 170-190: every task is done before the deadline
BatchGatherDone ==
    /\ bPc = "gather"
    /\ \A i \in 1..Len(bTask) : bTask[i] = "done"
    /\ bReturn' = gather_results(bResults, bOrder)
    /\ bPc' = "returned"
    /\ UNCHANGED <<bEvents, bLimit, bSem, bTask, bResults, bOrder>>
    /\ UNCHANGED notBatch

\* lines 170-173: the deadline passes with a task outstanding; wait_for
\* cancels the gather, which cancels every task that is not done
BatchDeadlineFires ==
    /\ bPc = "gather"
    /\ \E i \in 1..Len(bTask) : bTask[i] # "done"
    /\ bPc' = "cancelling"
    /\ UNCHANGED <<bEvents, bLimit, bSem, bTask, bResults, bOrder, bReturn>>
    /\ UNCHANGED notBatch

\* lines 162-164 under cancellation: the CancelledError leaves the task; one
\* that was inside the semaphore leaves it on the way
BatchTaskCancelled ==
    /\ bPc = "cancelling"
    /\ \E i \in 1..Len(bTask) :
          /\ bTask[i] \in {"waiting", "running"}
          /\ bTask' = [bTask EXCEPT ![i] = "cancelled"]
          /\ bSem' = IF bTask[i] = "running" THEN bSem + 1 ELSE bSem
    /\ UNCHANGED <<bPc, bEvents, bLimit, bResults, bOrder, bReturn>>
    /\ UNCHANGED notBatch

\* lines 192-194: wait_for raises TimeoutError once the tasks have ended
BatchTimeoutReturn ==
    /\ bPc = "cancelling"
    /\ gather_cancelled(bTask)
    /\ bPc' = on_timeout.pc
    /\ bReturn' = on_timeout.result
    /\ UNCHANGED <<bEvents, bLimit, bSem, bTask, bResults, bOrder>>
    /\ UNCHANGED notBatch

BatchNext ==
    \/ BatchStart
    \/ BatchAcquire
    \/ BatchAnalysisReturns
    \/ BatchGatherDone
    \/ BatchDeadlineFires
    \/ BatchTaskCancelled
    \/ BatchTimeoutReturn
----------------------------------------------------------------------------
(* Concurrent analyze_security_event calls sharing processing_stats: the   *)
(* tasks of one batch, or the requests one event loop serves. A call runs  *)
(* without interruption between two awaits; the awaits are the expansion    *)
(* gather, the scoring and the response stage.                              *)

\* numbers of entities the recognizer finds in a payload
CallEntityCounts == {0, 1, 2}

\* numbers of neighbours one call's expansions return in total
CallExpansionCounts == {0, 1}

NewCall == [pc |-> "start", entities |-> 0, result |-> NoResult]

\* _create_analysis_result, the fields the counters are compared with
CallCompleted(n, responses) ==
    [status |-> "completed",
     summary |-> [entities_extracted |-> n, responses_executed |-> responses]]

StatIdle ==
    /\ sCalls = <<>>
    /\ sStats = NoStats

\* the calls are created: batch_analyze_events line 167, or requests arriving
CallsStart ==
    /\ sCalls = <<>>
    /\ \E n \in 1..MaxBatch : sCalls' = [i \in 1..n |-> NewCall]
    /\ UNCHANGED sStats
    /\ UNCHANGED notStat

\* lines 71-110, up to the first await that suspends: with no entity the
\* call returns the empty completed result and touches no counter
CallExtract ==
    /\ \E i \in 1..Len(sCalls), n \in CallEntityCounts :
          /\ sCalls[i].pc = "start"
          /\ IF n = 0
             THEN /\ sCalls' = [sCalls EXCEPT ![i] = [pc |-> "returned", entities |-> 0,
                                                       result |-> CallCompleted(0, 0)]]
                  /\ UNCHANGED sStats
             ELSE /\ sCalls' = [sCalls EXCEPT ![i] = [pc |-> "expand", entities |-> n,
                                                       result |-> NoResult]]
                  /\ sStats' = count_entities(sStats, n)
    /\ UNCHANGED notStat

\* _expand_connections after its gather, lines 219-227
CallExpanded ==
    /\ \E i \in 1..Len(sCalls), n \in CallExpansionCounts :
          /\ sCalls[i].pc = "expand"
          /\ sCalls' = [sCalls EXCEPT ![i].pc = "score"]
          /\ sStats' = count_connections(sStats, n)
    /\ UNCHANGED notStat

\* _calculate_risk_scores returns, lines 115-121
CallScored ==
    /\ \E i \in 1..Len(sCalls) :
          /\ sCalls[i].pc = "score"
          /\ sCalls' = [sCalls EXCEPT ![i].pc = "respond"]
    /\ UNCHANGED sStats
    /\ UNCHANGED notStat

\* lines 122-141: the response stage is over (or was skipped); statistics and
\* the completed result
CallReturn ==
    /\ \E i \in 1..Len(sCalls), responses \in 0..MaxEntities :
          /\ sCalls[i].pc = "respond"
          /\ sCalls' = [sCalls EXCEPT ![i].pc = "returned",
                                      ![i].result = CallCompleted(sCalls[i].entities,
                                                                  responses)]
          /\ sStats' = count_event(sStats, responses)
    /\ UNCHANGED notStat

\* lines 143-153: an await of the call raised; the error result has no summary
CallError ==
    /\ \E i \in 1..Len(sCalls) :
          /\ sCalls[i].pc \in {"expand", "score", "respond"}
          /\ sCalls' = [sCalls EXCEPT ![i].pc = on_exception.pc,
                                      ![i].result = on_exception.result]
    /\ UNCHANGED sStats
    /\ UNCHANGED notStat

StatNext ==
    \/ CallsStart
    \/ CallExtract
    \/ CallExpanded
    \/ CallScored
    \/ CallReturn
    \/ CallError

----------------------------------------------------------------------------
(* Specifications *)

AllIdle == RespIdle /\ ExpIdle /\ AnIdle /\ BatchIdle /\ RecIdle /\ StatIdle

RespInit == AllIdle

SpecRespond == RespInit /\ [][RespNext]_vars

SpecPolicy == RespInit /\ [][PolicyCall]_vars

ExpInit == AllIdle

SpecExpand == ExpInit /\ [][ExpNext]_vars

SpecExpandOrder == ExpInit /\ [][ExpOrderNext]_vars

AnInit == AllIdle

SpecAnalyze == AnInit /\ [][AnNext]_vars

BatchInit == AllIdle

SpecBatch == BatchInit /\ [][BatchNext]_vars

RecInit == AllIdle

SpecRecognize == RecInit /\ [][RecNext]_vars


StatInit == AllIdle

SpecStats == StatInit /\ [][StatNext]_vars
----------------------------------------------------------------------------
(* Properties of the response orchestrator *)

Count(seq, P(_)) == Cardinality({i \in 1..Len(seq) : P(seq[i])})

SetMax(S) == CHOOSE x \in S : \A y \in S : y <= x
SetMin(S) == CHOOSE x \in S : \A y \in S : x <= y

\* the policy table as the documentation gives it
DocumentedPolicy(t) ==
    CASE t = 30 -> <<"send_alert">>
      [] t = 50 -> <<"send_alert", "collect_evidence">>
      [] t = 70 -> <<"send_alert", "create_ticket", "collect_evidence">>
      [] t = 85 -> <<"block_ip", "send_alert", "create_ticket", "notify_admin">>
      [] t = 95 -> <<"block_ip", "disable_user", "isolate_host", "send_alert",
                     "create_ticket", "notify_admin", "collect_evidence">>

\* C5: without custom actions the action list is that of the highest threshold
\* of {30, 50, 70, 85, 95} that is <= the score (a score equal to a threshold
\* selects it); below 30 the list is empty, nothing is dispatched, no result is
\* recorded and the entity is left as it was.
C5_HighestThresholdSelected ==
    (rPc # "idle" /\ rCustom = <<>>) =>
        LET score == rEntity0.risk_score
            reached == {t \in {30, 50, 70, 85, 95} : t <= score}
        IN /\ reached # {} => rActions = DocumentedPolicy(SetMax(reached))
           /\ score < 30 => /\ rActions = <<>>
                            /\ rPc = "returned"
                            /\ rTasks = <<>>
                            /\ rResults = <<>>
                            /\ rEntity = rEntity0

C5_Witness ==
    /\ rPc # "idle"
    /\ rCustom = <<>>
    /\ rEntity0.risk_score = 85
    /\ rActions = <<"block_ip", "send_alert", "create_ticket", "notify_admin">>

\* C6: every selected action whose (entity type, action) pair some executor
\* claims runs on the first such executor in registry order; an action no
\* executor claims gets no task and exactly one result, Failed with the
\* no-suitable-executor message.
C6_FirstExecutorOrFailure ==
    rPc \in {"gather", "returned"} =>
        \A k \in 1..Len(rSorted) :
            LET a == rSorted[k]
                type == rEntity0.entity_type
                claiming == {j \in 1..Len(executors) : can_handle(executors[j], type, a)}
                selected == Count(rSorted, LAMBDA x : x = a)
                noExecutor(r) == /\ r.action = a
                                 /\ r.status = FAILED
                                 /\ r.message = MsgNoExecutor
            IN IF claiming = {}
               THEN /\ Count(rTasks, LAMBDA t : t.action = a) = 0
                    /\ Count(rResults, noExecutor) = selected
               ELSE /\ Count(rTasks, LAMBDA t : t.action = a) = selected
                    /\ \A i \in 1..Len(rTasks) :
                          rTasks[i].action = a => rTasks[i].executor = executors[SetMin(claiming)]
                    /\ Count(rResults, noExecutor) = 0

C6_Witness ==
    /\ rPc = "returned"
    /\ executors = DefaultExecutors
    /\ rEntity0.entity_type = "user"
    /\ rEntity0.risk_score = 85
    /\ rCustom = <<>>
    /\ Len(rTasks) = 3
    /\ \A i \in 1..Len(rTasks) : rTasks[i].executor = "alert"
    /\ rResults[1] = Result("block_ip", FAILED, MsgNoExecutor, "none")

\* C7: execute_response does not raise; at its return every task has run,
\* there are as many results as selected actions, each action whose executor
\* raised or reported failure has a Failed result with the error message, and
\* each action whose executor succeeded has its Success result.
C7_EffectorErrorsBecomeFailed ==
    /\ rPc # "raised"
    /\ rPc = "returned" =>
        /\ Len(rResults) = Len(rSorted)
        /\ \A i \in 1..Len(rTasks) :
              LET t == rTasks[i]
                  same(x) == x.action = t.action /\ x.executor = t.executor
                  sameOutcome(x) == same(x) /\ x.outcome = t.outcome
                  resultOf(msg, status) ==
                      Count(rResults, LAMBDA r : /\ same(r)
                                                 /\ r.status = status
                                                 /\ r.message = msg)
              IN /\ t.outcome # "pending"
                 /\ t.outcome = "raised" =>
                        resultOf(MsgEffectorRaised, FAILED) = Count(rTasks, sameOutcome)
                 /\ t.outcome = "failed" =>
                        resultOf(MsgEffectorFailure, FAILED) = Count(rTasks, sameOutcome)
                 /\ t.outcome = "success" =>
                        resultOf(MsgDone, SUCCESS) = Count(rTasks, sameOutcome)

C7_Witness ==
    /\ rPc = "returned"
    /\ Len(rTasks) >= 3
    /\ rTasks[1].outcome = "raised"
    /\ rTasks[2].outcome = "failed"
    /\ rTasks[3].outcome = "success"
    /\ Len(rResults) = Len(rSorted)

\* the actions whose executor reported success
Succeeded == {rTasks[i].action : i \in {j \in 1..Len(rTasks) : rTasks[j].outcome = "success"}}

StatusFromSuccesses(S) ==
    IF "block_ip" \in S THEN BLOCKED
    ELSE IF "disable_user" \in S THEN BLEEDING_STOP
    ELSE IF "quarantine_file" \in S THEN BLOCKED
    ELSE IF "isolate_host" \in S THEN BLOCKED
    ELSE INVESTIGATED

\* C8 as stated: once the actions have settled the status is the first match
\* among the successful actions, Investigated when none of the four matched.
C8_StatusFromSuccessfulActions ==
    (rPc = "returned" /\ rActions # <<>>) => rEntity.status = StatusFromSuccesses(Succeeded)

\* C8 amended: when at least one action succeeded the status is the first
\* match among the successful actions (block_ip -> Blocked, disable_user ->
\* BleedingStop, quarantine_file -> Blocked, isolate_host -> Blocked, otherwise
\* Investigated); when no action succeeded the status is left as it was.
\* Failed actions never count.
C8_StatusFromSuccessfulActionsIfAny ==
    (rPc = "returned" /\ rActions # <<>>) =>
        IF Succeeded = {} THEN rEntity.status = rEntity0.status
        ELSE rEntity.status = StatusFromSuccesses(Succeeded)

C8_Witness ==
    /\ rPc = "returned"
    /\ rEntity0.entity_type = "user"
    /\ rEntity0.risk_score = 95
    /\ executors = DefaultExecutors
    /\ \E i \in 1..Len(rResults) : rResults[i].action = "block_ip" /\ rResults[i].status = FAILED
    /\ "disable_user" \in Succeeded
    /\ rEntity.status = BLEEDING_STOP


\* the call at hand came through manual_response_execution
IsManualCall == rPc = "rejected" \/ rCustom # <<>>

\* C17: manual_response_execution returns exactly one result per requested
\* action name, for every entity and every list of requested names.
C17_OneResultPerRequestedName ==
    (rPc \in {"returned", "rejected"} /\ IsManualCall) =>
        Len(rResults) = Len(rRequested)

\* C17, the part the code keeps: with a known entity type and at least one
\* valid name, the call returns one result per valid requested name (a name
\* requested twice gets two); with an unknown type or no valid name it returns
\* a single error result.
C17_OneResultPerValidName ==
    /\ (rPc = "returned" /\ IsManualCall) =>
          Len(rResults) = Len(valid_actions(rRequested))
    /\ rPc = "rejected" =>
          /\ Len(rResults) = 1
          /\ rResults[1].status = "error"

C17_Witness ==
    /\ rPc = "returned"
    /\ rRequested = <<"bogus_action", "block_ip">>
    /\ Len(rResults) = 1
    /\ rResults[1].action = "block_ip"

\* C22: a response cycle for an entity whose status is Whitelisted or Blocked
\* dispatches no action to any effector.
C22_NoDispatchForBlockedOrWhitelisted ==
    (rPc # "idle" /\ rEntity0.status \in {BLOCKED, WHITELISTED}) => rTasks = <<>>

\* an ip that is already Blocked, scored 85: block_ip goes to the firewall again
C22_Witness ==
    /\ rPc = "returned"
    /\ rEntity0.entity_type = "ip"
    /\ rEntity0.status = BLOCKED
    /\ rEntity0.risk_score = 85
    /\ \E i \in 1..Len(rTasks) : rTasks[i].action = "block_ip" /\ rTasks[i].executor = "firewall"
                                   /\ rTasks[i].outcome = "success"

\* the timeline entries the call at hand has appended to its entity
AppendedEntries == SubSeq(rEntity.timeline, Len(rEntity0.timeline) + 1, Len(rEntity.timeline))

ResponseEntries == SelectSeq(AppendedEntries, LAMBDA t : t.action = "response_executed")

SucceededNames == {rResults[i].action : i \in {j \in 1..Len(rResults) : rResults[j].status = SUCCESS}}

\* C23: after the actions of one execute_response call have settled, exactly
\* one timeline entry has been appended that records the set of actions
\* attempted and the success count, for every combination of outcomes.
C23_OneEntryRecordsAttemptedActions ==
    (rPc = "returned" /\ rSorted # <<>>) =>
        /\ Len(ResponseEntries) = 1
        /\ {ResponseEntries[1].response_actions[k] :
               k \in 1..Len(ResponseEntries[1].response_actions)}
              = {rSorted[k] : k \in 1..Len(rSorted)}
        /\ ResponseEntries[1].successful_count = Cardinality({j \in 1..Len(rResults) :
                                                                 rResults[j].status = SUCCESS})

\* C23, amended: when at least one action succeeded, the call appends two
\* entries, the status change and then one response_executed entry that
\* records the names of the successful actions, their number and the number
\* of results; when no action succeeded it appends nothing.
C23_OneEntryRecordsSuccessfulActions ==
    (rPc = "returned" /\ rSorted # <<>>) =>
        IF SucceededNames = {}
        THEN AppendedEntries = <<>>
        ELSE /\ Len(AppendedEntries) = 2
             /\ AppendedEntries[1].action = "status_change"
             /\ Len(ResponseEntries) = 1
             /\ AppendedEntries[2] = ResponseEntries[1]
             /\ {ResponseEntries[1].response_actions[k] :
                    k \in 1..Len(ResponseEntries[1].response_actions)} = SucceededNames
             /\ ResponseEntries[1].successful_count
                   = Cardinality({j \in 1..Len(rResults) : rResults[j].status = SUCCESS})
             /\ ResponseEntries[1].total_count = Len(rSorted)

\* four actions, two succeeded: the entry names the two and counts four
C23_Witness ==
    /\ rPc = "returned"
    /\ Len(rSorted) = 4
    /\ Len(ResponseEntries) = 1
    /\ ResponseEntries[1].successful_count = 2
    /\ ResponseEntries[1].total_count = 4
    /\ Len(ResponseEntries[1].response_actions) = 2

\* the result recorded for task i: the results of the tasks follow those of
\* the actions that got no task
ResultOfTask(i) == rResults[Len(rResults) - Len(rTasks) + i]

\* C30: every result names the action it was produced for: the Failed result
\* of a task that ended in an exception carries that task's action, also when
\* an action earlier in priority order had no executor and started no task.
C30_ExceptionResultNamesItsAction ==
    (rPc = "returned" /\ Len(rResults) >= Len(rTasks)) =>
        \A i \in 1..Len(rTasks) :
            rTasks[i].outcome = "escaped" =>
                /\ ResultOfTask(i).status = FAILED
                /\ ResultOfTask(i).action = rTasks[i].action

\* the first action in priority order had no executor, a later task ended in
\* an exception, and its result carries the name of the action before it
C30_Witness ==
    /\ rPc = "returned"
    /\ Len(rTasks) >= 2
    /\ find_executor(executors, rEntity0.entity_type, rSorted[1]) = 0
    /\ rTasks[2].outcome = "escaped"
    /\ ResultOfTask(2).status = FAILED
    /\ ResultOfTask(2).message = MsgTaskException
    /\ ResultOfTask(2).action = rSorted[2]
    /\ rSorted[2] # rTasks[2].action
----------------------------------------------------------------------------
(* Properties of the connection expansion *)

\* the positions of e's edges that point at entity t
EdgesTo(e, t) ==
    {i \in 1..Len(e.connections) :
        /\ e.connections[i].target_id = t.entity_id
        /\ e.connections[i].target_type = t.entity_type}

SameEntity(a, b) == a.entity_type = b.entity_type /\ a.entity_id = b.entity_id

ReturnedMethods == {k \in 1..Len(ExpansionMethods) : xBranch[ExpansionMethods[k]].state = "returned"}

FailedMethods == {k \in 1..Len(ExpansionMethods) : xBranch[ExpansionMethods[k]].state = "failed"}

\* entity j of method k is the first of its (type, id) among the entities the
\* surviving methods returned, in method order
FirstOfItsKey(k, j) ==
    /\ \A j2 \in 1..(j - 1) :
          ~ SameEntity(xBranch[ExpansionMethods[k]].entities[j2],
                       xBranch[ExpansionMethods[k]].entities[j])
    /\ \A k2 \in ReturnedMethods :
          k2 < k => \A j2 \in 1..Len(xBranch[ExpansionMethods[k2]].entities) :
                       ~ SameEntity(xBranch[ExpansionMethods[k2]].entities[j2],
                                    xBranch[ExpansionMethods[k]].entities[j])

ArrivalOf(method) == CHOOSE p \in 1..Len(xOrder) : xOrder[p] = method

\* the position of a method in the order in which the tasks were created
TaskIndexOf(method) == CHOOSE k \in 1..Len(ExpansionMethods) : ExpansionMethods[k] = method

\* the methods that returned an entity with T's (type, id)
MethodsReturning(T) ==
    {m \in DOMAIN xBranch :
        /\ xBranch[m].state = "returned"
        /\ \E j \in 1..Len(xBranch[m].entities) : SameEntity(xBranch[m].entities[j], T)}

OnePerKey ==
    \A i, j \in 1..Len(xExpanded) : SameEntity(xExpanded[i], xExpanded[j]) => i = j

\* C21: when two methods return the same (type, id), the merge keeps exactly
\* one entity for it, and it is the one of the method whose result arrived
\* first, for every completion order.
C21_FirstArrivingTagWins ==
    xPc = "returned" =>
        /\ OnePerKey
        /\ \A i \in 1..Len(xExpanded) :
              \A m \in MethodsReturning(xExpanded[i]) :
                 ArrivalOf(xExpanded[i].metadata.expansion_source) <= ArrivalOf(m)

\* C21, amended: the merge keeps exactly one entity per (type, id), and it is
\* the one of the method that comes first in the fixed order in which the
\* tasks are created (asset_relationship, threat_intel, baseline_anomaly,
\* temporal_correlation), whatever the order in which the results arrive.
C21_FirstMethodInTaskOrderWins ==
    xPc = "returned" =>
        /\ OnePerKey
        /\ \A i \in 1..Len(xExpanded) :
              \A m \in MethodsReturning(xExpanded[i]) :
                 TaskIndexOf(xExpanded[i].metadata.expansion_source) <= TaskIndexOf(m)

\* temporal_correlation returned ip n2 before threat_intel did, and the one
\* entity kept for it carries the threat_intel tag
C21_Witness ==
    /\ xPc = "returned"
    /\ \E i \in 1..Len(xExpanded) :
          /\ xExpanded[i].entity_type = "ip" /\ xExpanded[i].entity_id = "n2"
          /\ xExpanded[i].metadata.expansion_source = "threat_intel"
          /\ MethodsReturning(xExpanded[i]) = {"threat_intel", "temporal_correlation"}
          /\ ArrivalOf("temporal_correlation") < ArrivalOf("threat_intel")

\* the positions of the merged list that hold the first entity of a
\* (type, id) and carry enough confidence
ConfidentFirsts ==
    LET merged == MergeResults(xBranch)
    IN {i \in 1..Len(merged) :
           /\ \A j \in 1..(i - 1) : ~ SameEntity(merged[j], merged[i])
           /\ effective_confidence(merged[i]) >= min_confidence_threshold}

----------------------------------------------------------------------------
(* Properties of analyze_security_event *)

\* C4: analyze_security_event never raises to its caller. Whatever the
\* payload and whichever stage, backend or effector fails, the call ends by
\* returning a structured result: status "completed" with its summary, or
\* status "error" with a message. Until it returns there is no result.
C4_AnalyzeNeverRaises ==
    /\ aPc # "raised"
    /\ aPc = "returned" =>
          \/ /\ aResult.status = "completed"
             /\ aResult.summary.entities_extracted = Len(aResult.entities)
          \/ /\ aResult.status = "error"
             /\ aResult.error_message # ""
    /\ aPc # "returned" => aResult = NoResult

\* an exception reached the top of the call after scoring had begun, and the
\* call returned the error result
C4_Witness ==
    /\ aPc = "returned"
    /\ aResult.status = "error"
    /\ DOMAIN aRiskScores # {}

\* the bands of the specification
BandOf(score) ==
    IF score < 40 THEN "LOW"
    ELSE IF score < 70 THEN "MEDIUM"
    ELSE IF score < 90 THEN "HIGH"
    ELSE "CRITICAL"

ScoreAndLevelAgree(e) ==
    /\ e.risk_score >= 0
    /\ e.risk_score <= 100
    /\ e.threat_level = BandOf(e.risk_score)

\* C9: in every state of the pipeline every entity, whether recognised in
\* the event, returned by an expansion or listed in the result, has a risk
\* score within [0,100] and the threat level of that score's band; this
\* includes the entities whose scoring was switched off or failed.
C9_ScoreInRangeAndLevelInBand ==
    /\ \A i \in 1..Len(aEntities) : ScoreAndLevelAgree(aEntities[i])
    /\ \A i \in 1..Len(aNeighbors) :
          \A k \in 1..Len(aNeighbors[i]) : ScoreAndLevelAgree(aNeighbors[i][k])
    /\ aResult.status = "completed" =>
          \A i \in 1..Len(aResult.entities) : ScoreAndLevelAgree(aResult.entities[i])

\* a completed analysis in which one entity was scored into the Critical band
\* through the combination with a multi-point score and the scoring of
\* another entity failed
C9_Witness ==
    /\ aPc = "returned"
    /\ aResult.status = "completed"
    /\ aConfig.enable_risk_scoring
    /\ \E i \in 1..Len(aEntities) :
          /\ aEntities[i].risk_score = 96
          /\ aEntities[i].threat_level = "CRITICAL"
    /\ \E i \in 1..Len(aEntities) :
          /\ aEntities[i].risk_score = 0
          /\ \A k \in 1..Len(aEntities[i].timeline) :
                aEntities[i].timeline[k].action # "risk_score_update"

HasResponseEntry(e) ==
    \E k \in 1..Len(e.timeline) : e.timeline[k].action = "response_executed"

\* C13: responses are dispatched only when auto-response is enabled and the
\* event's max score has reached min_risk_threshold_for_response, and only
\* for entities whose own score has reached it: every response result names
\* an entity at or above the threshold, and an entity below it is neither a
\* target of the response stage nor changed by it.
C13_ResponsesOnlyAtOrAboveThreshold ==
    /\ (aPc = "respond" \/ aResponses # <<>>) =>
          /\ aConfig.enable_auto_response
          /\ aMaxRisk >= aConfig.min_risk_threshold_for_response
    /\ \A k \in 1..Len(aTargets) :
          aEntities[aTargets[k]].risk_score >= aConfig.min_risk_threshold_for_response
    /\ \A k \in 1..Len(aResponses) :
          \E i \in 1..Len(aEntities) :
             /\ aEntities[i].entity_id = aResponses[k].entity_id
             /\ aEntities[i].risk_score >= aConfig.min_risk_threshold_for_response
    /\ \A i \in 1..Len(aEntities) :
          aEntities[i].risk_score < aConfig.min_risk_threshold_for_response
             => ~ HasResponseEntry(aEntities[i])

\* a completed analysis with response results for one entity while another
\* entity, scored 40 (a score the response policy has actions for), got none
C13_Witness ==
    /\ aPc = "returned"
    /\ aResult.status = "completed"
    /\ aResponses # <<>>
    /\ \E i \in 1..Len(aEntities) :
          /\ aEntities[i].risk_score = 40
          /\ \A k \in 1..Len(aResponses) :
                aResponses[k].entity_id # aEntities[i].entity_id

AllStagesDisabled ==
    /\ ~ aConfig.enable_connection_expansion
    /\ ~ aConfig.enable_risk_scoring
    /\ ~ aConfig.enable_auto_response

\* C14: with expansion, scoring and auto-response all disabled no stage
\* touches the entities, and the completed result lists the entities as the
\* recognizer returned them, each with risk score 0, with max risk 0 and no
\* response result.
C14_AllStagesDisabled ==
    (AllStagesDisabled /\ aPc # "idle") =>
        /\ aEntities \in RecognizedLists
        /\ aRiskScores = <<>>
        /\ aTargets = <<>>
        /\ aResponses = <<>>
        /\ (aPc = "returned" /\ aResult.status = "completed") =>
              /\ aResult.entities = aEntities
              /\ \A i \in 1..Len(aResult.entities) : aResult.entities[i].risk_score = 0
              /\ aResult.summary.max_risk_score = 0
              /\ aResult.summary.entities_extracted = Len(aEntities)
              /\ aResult.response_results = <<>>

\* a completed analysis of an event with two entities, all stages disabled
C14_Witness ==
    /\ AllStagesDisabled
    /\ aPc = "returned"
    /\ aResult.status = "completed"
    /\ Len(aResult.entities) = 2

\* C15: when no entity is recognized (the empty payload included) the call
\* returns at once: it is at none of the expand, score and respond stages,
\* and its result has status "completed", 0 entities, max risk 0 and no
\* response result.
C15_NoEntitiesReturnsEmptyCompleted ==
    (aPc # "idle" /\ aEntities = <<>>) =>
        /\ aPc = "returned"
        /\ aResult.status = "completed"
        /\ aResult.entities = <<>>
        /\ aResult.summary.entities_extracted = 0
        /\ aResult.summary.max_risk_score = 0
        /\ aResult.response_results = <<>>
        /\ aRiskScores = <<>>
        /\ stats.total_connections_expanded = 0

\* the call returned for an event without entities while every stage was
\* switched on
C15_Witness ==
    /\ aPc = "returned"
    /\ aEntities = <<>>
    /\ aConfig = DefaultConfig
    /\ aResult.status = "completed"

ScoreEntries(e) ==
    {k \in 1..Len(e.timeline) : e.timeline[k].action = "risk_score_update"}

\* C16: an entity scored without a neighbour among the event's entities has
\* multi-point score 0 and is given exactly its single-point score, which is
\* not negative; a multi-point score other than 0 is found only on entities
\* that have such a neighbour.
C16_NoNeighborMeansSinglePointScore ==
    \A i \in 1..Len(aEntities) :
        get_context_entities(aEntities[i], aEntities) = <<>> =>
            \A k \in ScoreEntries(aEntities[i]) :
                /\ aEntities[i].timeline[k].reason.multi_point_score = 0
                /\ aEntities[i].timeline[k].new_score
                      = aEntities[i].timeline[k].reason.single_point_score
                /\ aEntities[i].timeline[k].new_score >= 0
                /\ aEntities[i].risk_score = aEntities[i].timeline[k].new_score

\* in one event an entity without neighbour was scored 70, its single-point
\* score, while another entity was scored with a multi-point score of 100
C16_Witness ==
    /\ \E i \in 1..Len(aEntities) :
          /\ get_context_entities(aEntities[i], aEntities) = <<>>
          /\ \E k \in ScoreEntries(aEntities[i]) : aEntities[i].timeline[k].new_score = 70
    /\ \E i \in 1..Len(aEntities) :
          \E k \in ScoreEntries(aEntities[i]) :
             aEntities[i].timeline[k].reason.multi_point_score = 100

\* the stage that wrote a timeline entry: 0 extraction, 1 expansion,
\* 2 scoring, 3 response
StageOf(entry) ==
    IF entry.action = "metadata_update" THEN 0
    ELSE IF entry.action = "status_change" /\ entry.reason = "expansion done" THEN 1
    ELSE IF entry.action = "risk_score_update" THEN 2
    ELSE 3

IsPrefix(s, t) == Len(s) <= Len(t) /\ \A k \in 1..Len(s) : s[k] = t[k]

TimelineInStageOrder(timeline) ==
    /\ \A p, q \in 1..Len(timeline) : p < q => StageOf(timeline[p]) <= StageOf(timeline[q])
    /\ Cardinality({p \in 1..Len(timeline) : StageOf(timeline[p]) = 1}) <= 1
    /\ Cardinality({p \in 1..Len(timeline) : StageOf(timeline[p]) = 2}) <= 1

\* C20: in every entity's timeline over one analyze_security_event call the
\* expansion's status change precedes the risk_score_update entry, which
\* precedes the entries of the response stage; every step of the call leaves
\* each timeline as it was or extends it at the end, so the last entry is the
\* latest mutation.
C20_TimelineAppendOnlyInStageOrder ==
    /\ [](\A i \in 1..Len(aEntities) : TimelineInStageOrder(aEntities[i].timeline))
    /\ [][aPc # "idle" =>
            /\ Len(aEntities') = Len(aEntities)
            /\ \A i \in 1..Len(aEntities) :
                  IsPrefix(aEntities[i].timeline, aEntities'[i].timeline)]_vars

C20_Witness ==
    /\ aPc = "returned"
    /\ aResult.status = "completed"
    /\ \E i \in 1..Len(aEntities) :
          LET timeline == aEntities[i].timeline
          IN /\ Len(timeline) = 6
             /\ StageOf(timeline[3]) = 1
             /\ StageOf(timeline[4]) = 2
             /\ timeline[5].action = "status_change"
             /\ timeline[6].action = "response_executed"

\* the entities of the respond stage whose response has begun: the returned
\* ones and the running ones
ResponseBegun == {aTargets[k] : k \in 1..(aIdx - 1)} \cup aRunning

ResponseReturned == {aTargets[k] : k \in 1..(aIdx - 1)}

\* C28: the responses of one event's entities at or above the threshold run
\* concurrently, so that actions of two entities execute at the same time: in
\* a respond stage no entity's response has returned while the response of
\* another entity of the stage has not begun.
C28_ResponsesOfEntitiesOverlap ==
    (aPc = "respond" /\ ResponseReturned # {}) =>
        \A k \in 1..Len(aTargets) : aTargets[k] \in ResponseBegun

\* C28, as the code runs: at no time are the responses of two entities running
C28_OneResponseAtATime ==
    Cardinality(aRunning) <= 1

\* C28: two entities at or above the threshold; the response of the first has
\* returned and the response of the second has not begun
C28_Witness ==
    /\ aPc = "respond"
    /\ Len(aTargets) = 2
    /\ aIdx = 2
    /\ aRunning = {}
    /\ Len(aResponses) > 0
    /\ \A k \in 1..Len(aResponses) : aResponses[k].entity_id = aEntities[aTargets[1]].entity_id
----------------------------------------------------------------------------
(* Properties of batch_analyze_events *)

Running == {i \in 1..Len(bTask) : bTask[i] = "running"}

DeadlineFired == \E i \in 1..Len(bTask) : bTask[i] = "cancelled"

\* C1 as stated: the call returns exactly one result per payload, result i
\* being the outcome (completed, error or timeout) of payload i, also when
\* the deadline fired.
C1_OneResultPerPayload ==
    bPc = "returned" =>
        /\ Len(bReturn) = Len(bEvents)
        /\ \A i \in 1..Len(bEvents) :
              IF bTask[i] = "done" THEN bReturn[i] = bResults[i]
              ELSE bReturn[i].status = "timeout"

\* C1, amended: when the deadline does not fire the call returns exactly one
\* result per payload, result i being what the analysis of payload i
\* returned (completed or error), in input order whatever order the analyses
\* finished in; when the deadline fires it returns one batch-level result
\* with status "timeout" in place of the per-payload results.
C1_OneResultPerPayloadUnlessTimeout ==
    bPc = "returned" =>
        IF DeadlineFired
        THEN bReturn = <<BatchTimeoutResult>>
        ELSE /\ Len(bReturn) = Len(bEvents)
             /\ \A i \in 1..Len(bEvents) :
                   /\ bReturn[i].status \in {"completed", "error"}
                   /\ bReturn[i].payload = bEvents[i]
                   /\ bReturn[i] = bResults[i]

\* a batch of different payloads returned without a timeout although the
\* second analysis finished before the first and with another outcome
C1_Witness ==
    /\ bPc = "returned"
    /\ ~ DeadlineFired
    /\ Len(bEvents) >= 2
    /\ bEvents[1] # bEvents[2]
    /\ bOrder[1] = 2
    /\ bResults[1].status # bResults[2].status

\* C2: at no point of a batch, under no interleaving, are more analyses in
\* progress than max_concurrent_processing allows, and every permit taken is
\* either held by an analysis in progress or back in the semaphore, whichever
\* way the analyses that took it ended.
C2_ConcurrencyBounded ==
    /\ Cardinality(Running) <= bLimit
    /\ bSem + Cardinality(Running) = bLimit
    /\ bPc = "returned" => bSem = bLimit

\* the limit binds: an analysis has ended, as many as the limit allows are in
\* progress and a task is still waiting for a permit
C2_Witness ==
    /\ bPc = "gather"
    /\ Cardinality(Running) = bLimit
    /\ \E i \in 1..Len(bTask) : bTask[i] = "done"
    /\ \E i \in 1..Len(bTask) : bTask[i] = "waiting"

\* C3: when the deadline fires with analyses outstanding the call does not
\* raise; it returns the batch-level result whose status is "timeout".
C3_TimeoutGivesBatchLevelResult ==
    /\ bPc # "raised"
    /\ (bPc = "returned" /\ DeadlineFired) =>
          /\ Len(bReturn) = 1
          /\ bReturn[1].status = "timeout"

\* the deadline fired in a batch of three after one analysis had finished;
\* the others were cancelled, every permit is back and the call has returned
C3_Witness ==
    /\ bPc = "returned"
    /\ bReturn = <<BatchTimeoutResult>>
    /\ \E i \in 1..Len(bTask) : bTask[i] = "done"
    /\ bSem = bLimit
    /\ Len(bTask) = 3

Outstanding == {i \in 1..Len(bTask) : bTask[i] \in {"waiting", "running"}}

\* C29: when the deadline fires every outstanding analysis is cancelled:
\* once the call has returned its timeout result no task is waiting or in
\* progress, a cancelled task has produced no result, every permit is back,
\* and from then on no task takes a step.
C29_NothingRunsAfterTimeoutReturn ==
    /\ [](bReturn = <<BatchTimeoutResult>> =>
            /\ Outstanding = {}
            /\ bSem = bLimit
            /\ \A i \in 1..Len(bTask) :
                  bTask[i] = "cancelled" => bResults[i] = NoAnalysis)
    /\ [][bReturn = <<BatchTimeoutResult>> =>
            UNCHANGED <<bTask, bResults, bOrder, bSem>>]_vars

\* the deadline fired on a batch of three with two analyses in progress and
\* one waiting; all three were cancelled and the call has returned
C29_Witness ==
    /\ bPc = "returned"
    /\ bReturn = <<BatchTimeoutResult>>
    /\ Len(bTask) = 3
    /\ bLimit = 2
    /\ \A i \in 1..Len(bTask) : bTask[i] = "cancelled"
----------------------------------------------------------------------------
(* Properties of extract_entities *)

\* C11: the list extract_entities returns never holds two entities with the
\* same (entity_type, entity_id), whatever the payload, also when two field
\* values of one type give the same id.
C11_NoDuplicateTypeAndId ==
    gPc = "returned" =>
        \A i \in 1..Len(gEntities) : \A j \in 1..Len(gEntities) :
            (/\ gEntities[i].entity_type = gEntities[j].entity_type
             /\ gEntities[i].entity_id = gEntities[j].entity_id) => i = j

\* the structured fields of each entity type
FieldsOf(type) ==
    CASE type = "ip" -> ip_fields
      [] type = "user" -> user_fields
      [] type = "file" -> file_fields
      [] type = "process" -> process_fields

\* C25: the dedup key is (entity_type, entity_id): a value emitted under one
\* type does not suppress the same string under another type, so every valid
\* value of a structured field yields an entity of the field's type with its
\* id; within one type the first field that carries the id is the one kept.
C25_DedupKeyIsTypeAndId ==
    (gPc = "returned" /\ ~ json_dumps_raises(gPayload)) =>
        \A type \in {"ip", "user", "file", "process"} :
            \A k \in 1..Len(FieldsOf(type)) :
                LET v == gPayload[FieldsOf(type)[k]]
                    first == \A k2 \in 1..(k - 1) :
                                entity_id_of(type, gPayload[FieldsOf(type)[k2]])
                                    # entity_id_of(type, v)
                IN (v # Absent /\ accepts(type, v) /\ first) =>
                      \E i \in 1..Len(gEntities) :
                         /\ gEntities[i].entity_type = type
                         /\ gEntities[i].entity_id = entity_id_of(type, v)
                         /\ gEntities[i].metadata.field_source = FieldsOf(type)[k]

\* the file path is also the process image: the file is emitted, the process
\* is not
C25_Witness ==
    /\ gPc = "returned"
    /\ gPayload.file_path = PathA
    /\ gPayload.process_name = PathA
    /\ gPayload.image_name = Absent
    /\ \E i \in 1..Len(gEntities) : gEntities[i].entity_type = "file"
    /\ \A i \in 1..Len(gEntities) : gEntities[i].entity_type # "process"

\* C26: a failure on one field does not abort the extraction of the others:
\* every structured field with a valid value that no other field carries
\* (and that the text pass does not take as an address) still yields its
\* entity, and every entity returned carries both stamps.
C26_FailureOnOneFieldSparesTheOthers ==
    gPc = "returned" =>
        /\ \A type \in {"ip", "user", "file", "process"} :
              \A k \in 1..Len(FieldsOf(type)) :
                 LET v == gPayload[FieldsOf(type)[k]]
                     fresh == /\ \A f \in AllFields :
                                    (gPayload[f] = v) => f = FieldsOf(type)[k]
                              /\ v = IpValue => type = "ip"
                 IN (v # Absent /\ accepts(type, v) /\ fresh) =>
                       \E i \in 1..Len(gEntities) :
                          /\ gEntities[i].entity_type = type
                          /\ gEntities[i].entity_id = entity_id_of(type, v)
        /\ \A i \in 1..Len(gEntities) :
              /\ "source_event_id" \in DOMAIN gEntities[i].metadata
              /\ "extraction_timestamp" \in DOMAIN gEntities[i].metadata

\* a payload with a valid source address and user name and one field that
\* json.dumps cannot encode: nothing is returned
C26_Witness ==
    /\ gPc = "returned"
    /\ gPayload.src_ip = IpValue
    /\ gPayload.username = Word
    /\ gPayload[UnknownField] = Opaque
    /\ gEntities = <<>>

OnlyUnknownFields(log_data) ==
    \A k \in 1..Len(PayloadFields) : log_data[PayloadFields[k]] = Absent

\* C27: for a payload with only unknown fields, every valid address, domain
\* and hash in the payload's text is emitted by the text pass, a hash as a
\* file entity flagged is_hash with its hash_type.
C27_FreeTextPassEmitsAddressDomainHash ==
    (gPc = "returned" /\ OnlyUnknownFields(gPayload)) =>
        /\ gPayload[UnknownField] = IpValue =>
              \E i \in 1..Len(gEntities) :
                 gEntities[i].entity_type = "ip" /\ gEntities[i].entity_id = IpValue
        /\ gPayload[UnknownField] = DomainValue =>
              \E i \in 1..Len(gEntities) :
                 gEntities[i].entity_type = "domain" /\ gEntities[i].entity_id = DomainValue
        /\ gPayload[UnknownField] = Md5Value =>
              \E i \in 1..Len(gEntities) :
                 /\ gEntities[i].entity_type = "file"
                 /\ gEntities[i].entity_id = Md5Value
                 /\ gEntities[i].metadata.is_hash
                 /\ gEntities[i].metadata.hash_type = "MD5"

\* the only field of the payload holds an MD5 and nothing is returned
C27_Witness ==
    /\ gPc = "returned"
    /\ OnlyUnknownFields(gPayload)
    /\ gPayload[UnknownField] = Md5Value
    /\ gEntities = <<>>
----------------------------------------------------------------------------
(* Properties of the aggregate counters *)

RECURSIVE SumFrom(_, _)
SumFrom(numbers, k) ==
    IF k > Len(numbers) THEN 0 ELSE numbers[k] + SumFrom(numbers, k + 1)

SumOver(calls, k, f(_)) == SumFrom([i \in 1..Len(calls) |-> f(calls[i])], k)

IsCompleted(call) == call.result.status = "completed"

\* a field of the summary of a returned result; an error result has no summary
SummaryField(call, field) ==
    IF IsCompleted(call) THEN call.result.summary[field] ELSE 0

CompletedCalls == {i \in 1..Len(sCalls) : IsCompleted(sCalls[i])}

\* C18: every call that returns status "completed" increments
\* total_events_processed by exactly one, so total_events_processed equals
\* the number of completed results returned.
C18_EventsProcessedCountsCompleted ==
    sStats.total_events_processed = Cardinality(CompletedCalls)

\* C18, amended: a completed call that recognized at least one entity
\* increments total_events_processed by exactly one; a call that recognized
\* none returns its completed result without touching the counter, and so
\* does a call that ends in error. total_events_processed equals the number
\* of completed results with entities_extracted > 0.
C18_EventsProcessedCountsCompletedWithEntities ==
    sStats.total_events_processed =
        Cardinality({i \in CompletedCalls : sCalls[i].result.summary.entities_extracted > 0})

C18_Witness ==
    /\ Len(sCalls) = 3
    /\ \A i \in 1..3 : IsCompleted(sCalls[i])
    /\ sCalls[1].result.summary.entities_extracted = 0
    /\ sCalls[2].result.summary.entities_extracted > 0
    /\ sCalls[3].result.summary.entities_extracted > 0
    /\ sStats.total_events_processed = 2

\* C19: no counter update is lost under any interleaving of concurrent calls.
\* At every moment total_entities_extracted is the sum of what the calls that
\* passed extraction found and total_responses_executed is the sum of
\* summary.responses_executed over the results returned so far; once every
\* call has returned "completed", total_entities_extracted is the sum of
\* summary.entities_extracted over the returned results.
C19_NoLostCounterUpdate ==
    /\ sStats.total_entities_extracted = SumOver(sCalls, 1, LAMBDA c : c.entities)
    /\ sStats.total_responses_executed =
           SumOver(sCalls, 1, LAMBDA c : SummaryField(c, "responses_executed"))
    /\ (sCalls # <<>> /\ \A i \in 1..Len(sCalls) : IsCompleted(sCalls[i])) =>
           sStats.total_entities_extracted =
               SumOver(sCalls, 1, LAMBDA c : SummaryField(c, "entities_extracted"))

\* three calls that found entities all completed; five entities and four responses in all
C19_Witness ==
    /\ Len(sCalls) = 3
    /\ \A i \in 1..3 : IsCompleted(sCalls[i]) /\ sCalls[i].entities > 0
    /\ sStats.total_entities_extracted = 5
    /\ sStats.total_responses_executed = 4
====
